---- MODULE Spec2Model ----
(***************************************************************************)
(* Model of the anki-backup-tool backup repository                         *)
(* (crates/storage/src/repository.rs) and the data it keeps: the backups   *)
(* and rollback_events tables of state/metadata.db, the snapshot           *)
(* directories under backups/ and the current pointer file under state/.   *)
(*                                                                         *)
(* Time is counted in ticks; TicksPerSec ticks make one wall-clock second  *)
(* and DayTicks ticks make one retention "day".  Every repository call     *)
(* reads the clock once and the clock then moves on, so two sequential     *)
(* calls never read the same instant, but they may fall in the same        *)
(* second.  Optional values are sequences: <<>> is None, <<x>> is Some(x). *)
(***************************************************************************)
EXTENDS Integers, Sequences, FiniteSets, TLC

\* ---------------------------------------------------------------- bounds
TicksPerSec == 2
MaxClock == 4

\* A retention day, scaled down to ticks of the model's clock so that entries
\* age past a cutoff within MaxClock.
DayTicks == 1

\* ---------------------------------------------------------------- options
None == <<>>
Some(x) == <<x>>
IsSome(o) == Len(o) = 1
Unwrap(o) == o[1]

\* ---------------------------------------------------------------- inputs
\* Collection files the caller may hand to run_once.  A collection is what
\* extract_stats can see of the bytes: the tables present, the rows of
\* cards (one deck id per card), the row counts of notes and revlog, the
\* col.decks text (None when it is not a JSON object; otherwise the members
\* of the object, each with its key read as an i64, if it is one, and its
\* "name" string, if it has one) and the length of the file in bytes.
decks_json ==
    Some({[key |-> Some(10), name |-> Some(<<"Default">>)],
          [key |-> Some(20), name |-> Some(<<"Spanish">>)]})

sample_collection ==
    [tables |-> {"cards", "notes", "revlog", "col"}, cards |-> <<10, 10, 20>>,
     notes |-> 2, revlog |-> 1,
     col_decks |-> decks_json, len |-> 3]

sample_collection_v2 ==
    [tables |-> {"cards", "notes", "revlog", "col"}, cards |-> <<10, 10, 20, 20>>,
     notes |-> 3, revlog |-> 2,
     col_decks |-> decks_json, len |-> 4]

\* Bytes that are not a collection database at all.
garbage_bytes ==
    [tables |-> {}, cards |-> <<>>, notes |-> 0, revlog |-> 0,
     col_decks |-> None, len |-> 1]

\* What a failed fs::write leaves of a file: File::create truncated it and
\* write_all did not finish.
Truncated(c) == [c EXCEPT !.tables = {}, !.cards = <<>>, !.notes = 0,
                          !.revlog = 0, !.col_decks = None, !.len = 0]

\* A collection of the current schema: the deck names are rows of a decks
\* table, and the decks column of col holds text that is not JSON.
modern_collection ==
    [tables |-> {"cards", "notes", "revlog", "col", "decks"}, cards |-> <<10, 10, 20>>,
     notes |-> 2, revlog |-> 1,
     col_decks |-> None, len |-> 3]

Collections == {sample_collection, sample_collection_v2, garbage_bytes, modern_collection}

BackupPayload ==
    [bytes : Collections, source_revision : {None}, sync_duration_ms : {Some(1)}]

Hashes == {"h1", "h2"}

Uuids == 1..MaxClock

\* ---------------------------------------------------------------- text forms
\* DateTime::to_rfc3339: the instant as text, seconds then the fraction.
\* SQLite compares the created_at column as text; TextLess is that
\* comparison (the seconds field first, then the fraction).
to_rfc3339(t) == <<t \div TicksPerSec, t % TicksPerSec>>

TextLess(a, b) == a[1] < b[1] \/ (a[1] = b[1] /\ a[2] < b[2])

parse_ts(raw) == raw[1] * TicksPerSec + raw[2]

\* Seconds-precision directory name: the fraction of the second is dropped.
format_timestamp_dir(now) == <<now \div TicksPerSec>>

\* Mutant of status_str: the Debug spelling of the variant is stored.
status_str_debug(status) == IF status = "Created" THEN "Created" ELSE "Skipped"

status_str(status) == IF status = "Created" THEN "created" ELSE "skipped"

\* Mutant of parse_status: the stored text is compared with the variant's name.
parse_status_case_sensitive(raw) == IF raw = "Skipped" THEN "Skipped" ELSE "Created"

parse_status(raw) == IF raw = "skipped" THEN "Skipped" ELSE "Created"

skip_reason_str(reason) == "unchanged"

parse_skip_reason(raw) == "Unchanged"

\* ---------------------------------------------------------------- state
VARIABLES
    backups,          \* rows of the backups table
    rollback_events,  \* rows of the rollback_events table
    dirs,             \* backups/<timestamp_dir>/ -> its two files
    pointer,          \* state/current-pointer.json (None when absent)
    pointer_tmp,      \* state/current-pointer.json.tmp (None when absent)
    next_id,          \* the next value Uuid::new_v4 hands out
    clock,            \* Utc::now(), in ticks
    faulted,          \* an I/O failure has been injected (at most one per run)
    ret,              \* the last completed call: its arguments and result
    threads,          \* concurrent callers: each caller's local variables
    backend,          \* the metadata store the callers share: "sqlite" or "postgres"
    sync,             \* a run of sync_collection: its locals and the requests it sent
    sched,            \* the scheduler task: where it is in its loop, what the pass holds
    http              \* the HTTP server: its AppState and the requests being handled

vars == <<backups, rollback_events, dirs, pointer, pointer_tmp, next_id, clock,
          faulted, ret, threads, backend, sync, sched, http>>

\* The persistent state as one value, so that a call is a function on it.
World ==
    [backups |-> backups, rollback_events |-> rollback_events, dirs |-> dirs,
     pointer |-> pointer, pointer_tmp |-> pointer_tmp, next_id |-> next_id]

\* ---------------------------------------------------------------- core types
\* NewBackupEntry::created
NewBackupEntry_created(created_at, timestamp_dir, content_hash, source_revision, sync_duration_ms, size_bytes, stats) ==
    [created_at |-> created_at, timestamp_dir |-> timestamp_dir,
     content_hash |-> content_hash, status |-> "Created", skip_reason |-> None,
     source_revision |-> source_revision, sync_duration_ms |-> sync_duration_ms,
     size_bytes |-> size_bytes, stats |-> Some(stats)]

\* Mutant of NewBackupEntry::skipped_unchanged: the skip marker is given the
\* directory name of its instant.
NewBackupEntry_skipped_unchanged_with_dir(created_at, content_hash) ==
    [created_at |-> created_at, timestamp_dir |-> format_timestamp_dir(created_at),
     content_hash |-> content_hash, status |-> "Skipped",
     skip_reason |-> Some("Unchanged"), source_revision |-> None,
     sync_duration_ms |-> None, size_bytes |-> 0, stats |-> None]

\* NewBackupEntry::skipped_unchanged
NewBackupEntry_skipped_unchanged(created_at, content_hash) ==
    [created_at |-> created_at, timestamp_dir |-> <<>>,
     content_hash |-> content_hash, status |-> "Skipped",
     skip_reason |-> Some("Unchanged"), source_revision |-> None,
     sync_duration_ms |-> None, size_bytes |-> 0, stats |-> None]

\* The entry insert_entry builds from a NewBackupEntry and a fresh uuid.
BackupEntry(id, new_entry) ==
    [id |-> id, created_at |-> new_entry.created_at,
     timestamp_dir |-> new_entry.timestamp_dir,
     content_hash |-> new_entry.content_hash, status |-> new_entry.status,
     skip_reason |-> new_entry.skip_reason,
     source_revision |-> new_entry.source_revision,
     sync_duration_ms |-> new_entry.sync_duration_ms,
     size_bytes |-> new_entry.size_bytes, stats |-> new_entry.stats]

\* The row the INSERT statement of insert_entry writes for an entry.
EntryToRow(entry) ==
    [id |-> entry.id, created_at |-> to_rfc3339(entry.created_at),
     timestamp_dir |-> entry.timestamp_dir, content_hash |-> entry.content_hash,
     status |-> status_str(entry.status),
     skip_reason |-> IF IsSome(entry.skip_reason)
                     THEN Some(skip_reason_str(Unwrap(entry.skip_reason))) ELSE None,
     source_revision |-> entry.source_revision,
     sync_duration_ms |-> entry.sync_duration_ms,
     size_bytes |-> entry.size_bytes, stats_json |-> entry.stats]

\* The entry get_backup and list_backups build from a row.
row_to_entry(row) ==
    [id |-> row.id, created_at |-> parse_ts(row.created_at),
     timestamp_dir |-> row.timestamp_dir, content_hash |-> row.content_hash,
     status |-> parse_status(row.status),
     skip_reason |-> IF IsSome(row.skip_reason)
                     THEN Some(parse_skip_reason(Unwrap(row.skip_reason))) ELSE None,
     source_revision |-> row.source_revision,
     sync_duration_ms |-> row.sync_duration_ms,
     size_bytes |-> row.size_bytes, stats |-> row.stats_json]

\* ---------------------------------------------------------------- statistics
\* parse_deck_names: the id -> name pairs of col.decks, None when the text is
\* not a JSON object; members without an integer key or a name are dropped.
parse_deck_names(raw) ==
    IF ~IsSome(raw) THEN None
    ELSE Some({<<Unwrap(m.key), Unwrap(m.name)>> :
                 m \in {x \in Unwrap(raw) : IsSome(x.key) /\ IsSome(x.name)}})

DeckName(deck_names, did) ==
    IF \E p \in deck_names : p[1] = did
    THEN (CHOOSE p \in deck_names : p[1] = did)[2]
    ELSE <<"Deck", did>>

CardDecks(cards) == {cards[i] : i \in DOMAIN cards}

\* extract_stats: None when a query fails (a table is missing, col.decks does
\* not parse).  deck_stats is kept as a set: its order is not modelled.
extract_stats(c) ==
    IF ~({"cards", "notes", "revlog", "col"} \subseteq c.tables) THEN None
    ELSE LET parsed == parse_deck_names(c.col_decks) IN
         IF ~IsSome(parsed) THEN None
         ELSE LET deck_names == Unwrap(parsed) IN
              Some([total_cards |-> Len(c.cards),
                    total_decks |-> Cardinality({p[1] : p \in deck_names}),
                    total_notes |-> c.notes,
                    total_revlog |-> c.revlog,
                    deck_stats |->
                        {[deck_id |-> did,
                          deck_name |-> DeckName(deck_names, did),
                          card_count |->
                              Cardinality({i \in DOMAIN c.cards : c.cards[i] = did})]
                         : did \in CardDecks(c.cards)}])

\* ---------------------------------------------------------------- store
\* Mutant of last_created_hash: ORDER BY created_at ASC, the oldest created row.
last_created_hash_oldest(rows) ==
    LET created == {r \in rows : r.status = "created"} IN
    IF created = {} THEN {None}
    ELSE {Some(r.content_hash) :
            r \in {x \in created :
                     \A y \in created : ~TextLess(y.created_at, x.created_at)}}

\* The results (Option<String>) the query of last_created_hash may return:
\* the content_hash of a created row no other created row is later than.
last_created_hash(rows) ==
    LET created == {r \in rows : r.status = "created"} IN
    IF created = {} THEN {None}
    ELSE {Some(r.content_hash) :
            r \in {x \in created :
                     \A y \in created : ~TextLess(x.created_at, y.created_at)}}

\* get_backup: the entry of the row with this id, if any.
get_backup(rows, id) ==
    IF \E r \in rows : r.id = id
    THEN Some(row_to_entry(CHOOSE r \in rows : r.id = id))
    ELSE None

\* list_backups: the entries, created_at descending.
RECURSIVE SortDesc(_)
SortDesc(rows) ==
    IF rows = {} THEN <<>>
    ELSE LET top == CHOOSE x \in rows :
                      \A y \in rows : ~TextLess(x.created_at, y.created_at)
         IN <<row_to_entry(top)>> \o SortDesc(rows \ {top})

list_backups(rows) == SortDesc(rows)

\* ---------------------------------------------------------------- files
EmptyDir == [collection |-> None, metadata |-> None]

\* fs::create_dir_all: an existing directory is kept as it is.
create_dir_all(d, name) ==
    IF name \in DOMAIN d THEN d
    ELSE [n \in DOMAIN d \cup {name} |-> IF n = name THEN EmptyDir ELSE d[n]]

\* fs::remove_dir_all
remove_dir_all(d, name) == [n \in DOMAIN d \ {name} |-> d[n]]

\* backup_file_path(entry) names an existing file
SnapshotExists(d, timestamp_dir) ==
    timestamp_dir \in DOMAIN d /\ IsSome(d[timestamp_dir].collection)

PartialPointer ==
    [backup_id |-> 0, timestamp_dir |-> <<>>, updated_at |-> 0, complete |-> FALSE]

\* Mutant of write_current_pointer: the temporary file is written and never
\* renamed over the pointer.
write_current_pointer_no_rename(w, backup, now, fault) ==
    [w |-> [w EXCEPT !.pointer_tmp =
                Some([backup_id |-> backup.id, timestamp_dir |-> backup.timestamp_dir,
                      updated_at |-> now, complete |-> TRUE])],
     ok |-> fault \notin {"ptr_tmp", "ptr_rename"}]

\* Mutant of write_current_pointer: the record is written straight into
\* current-pointer.json, without a temporary file.
write_current_pointer_in_place(w, backup, now, fault) ==
    LET ptr == [backup_id |-> backup.id, timestamp_dir |-> backup.timestamp_dir,
                updated_at |-> now, complete |-> TRUE]
    IN IF fault = "ptr_tmp"
       THEN [w |-> [w EXCEPT !.pointer = Some(PartialPointer)], ok |-> FALSE]
       ELSE [w |-> [w EXCEPT !.pointer = Some(ptr)], ok |-> fault # "ptr_rename"]

\* write_current_pointer: [w, ok].  updated_at is read from the clock within
\* the same call; the model gives it the call's reading.
write_current_pointer(w, backup, now, fault) ==
    LET ptr == [backup_id |-> backup.id, timestamp_dir |-> backup.timestamp_dir,
                updated_at |-> now, complete |-> TRUE]
    IN IF fault = "ptr_tmp"
       THEN [w |-> [w EXCEPT !.pointer_tmp = Some(PartialPointer)], ok |-> FALSE]
       ELSE IF fault = "ptr_rename"
       THEN [w |-> [w EXCEPT !.pointer_tmp = Some(ptr)], ok |-> FALSE]
       ELSE [w |-> [w EXCEPT !.pointer_tmp = None, !.pointer = Some(ptr)],
             ok |-> TRUE]

\* Mutant of insert_entry: the metadata.json copy is written for every entry,
\* whatever its status.
insert_entry_always_side_file(w, new_entry, fault) ==
    LET entry == BackupEntry(w.next_id, new_entry)
        w0 == [w EXCEPT !.next_id = @ + 1]
    IN IF fault = "insert" THEN [w |-> w0, ok |-> FALSE, entry |-> entry]
       ELSE LET w1 == [w0 EXCEPT !.backups = @ \cup {EntryToRow(entry)}] IN
            IF fault = "metadata_json" \/ entry.timestamp_dir \notin DOMAIN w1.dirs
            THEN [w |-> w1, ok |-> FALSE, entry |-> entry]
            ELSE [w |-> [w1 EXCEPT !.dirs[entry.timestamp_dir].metadata = Some(entry)],
                  ok |-> TRUE, entry |-> entry]

\* insert_entry: [w, ok, entry].  The row is inserted first; for a Created
\* entry the metadata.json copy is then written into its directory.
insert_entry(w, new_entry, fault) ==
    LET entry == BackupEntry(w.next_id, new_entry)
        w0 == [w EXCEPT !.next_id = @ + 1]
    IN IF fault = "insert" THEN [w |-> w0, ok |-> FALSE, entry |-> entry]
       ELSE LET w1 == [w0 EXCEPT !.backups = @ \cup {EntryToRow(entry)}] IN
            IF entry.status # "Created" THEN [w |-> w1, ok |-> TRUE, entry |-> entry]
            ELSE IF fault = "metadata_json" \/ entry.timestamp_dir \notin DOMAIN w1.dirs
            THEN [w |-> w1, ok |-> FALSE, entry |-> entry]
            ELSE [w |-> [w1 EXCEPT !.dirs[entry.timestamp_dir].metadata = Some(entry)],
                  ok |-> TRUE, entry |-> entry]

\* ---------------------------------------------------------------- run_once
Err(w) == [w |-> w, kind |-> "Err", entry |-> None, count |-> 0]

\* run_once(payload, content_hash) at instant now; last_hash is what the
\* last_created_hash query returned; fault names the step that fails, if any.
run_once(w, now, payload, content_hash, last_hash, fault) ==
    IF fault = "connect" THEN Err(w)
    ELSE IF last_hash = Some(content_hash)
    THEN LET ins == insert_entry(w, NewBackupEntry_skipped_unchanged(now, content_hash),
                                 fault)
         IN IF ins.ok THEN [w |-> ins.w, kind |-> "Skipped", entry |-> Some(ins.entry), count |-> 0]
            ELSE Err(ins.w)
    ELSE
    LET timestamp_dir == format_timestamp_dir(now) IN
    IF fault = "mkdir" THEN Err(w)
    ELSE
    LET w1 == [w EXCEPT !.dirs = create_dir_all(@, timestamp_dir)] IN
    IF fault = "write_open" THEN Err(w1)
    ELSE IF fault = "write_io"
    THEN Err([w1 EXCEPT !.dirs[timestamp_dir].collection = Some(Truncated(payload.bytes))])
    ELSE
    LET w2 == [w1 EXCEPT !.dirs[timestamp_dir].collection = Some(payload.bytes)]
        stats == extract_stats(Unwrap(w2.dirs[timestamp_dir].collection))
    IN
    IF fault = "stat" \/ ~IsSome(stats) THEN Err(w2)
    ELSE
    LET size_bytes == Unwrap(w2.dirs[timestamp_dir].collection).len
        ins == insert_entry(w2,
                   NewBackupEntry_created(now, timestamp_dir, content_hash,
                       payload.source_revision, payload.sync_duration_ms,
                       size_bytes, Unwrap(stats)),
                   fault)
    IN
    IF ~ins.ok THEN Err(ins.w)
    ELSE
    LET wp == write_current_pointer(ins.w, ins.entry, now, fault) IN
    IF ~wp.ok THEN Err(wp.w)
    ELSE [w |-> wp.w, kind |-> "Created", entry |-> Some(ins.entry), count |-> 0]

\* ---------------------------------------------------------------- rollback_to
\* Mutant of rollback_to: rolling back also drops the rows inserted after
\* the target, as a restore would.
rollback_to_dropping_later(w, now, id, fault) ==
    IF fault = "connect" THEN Err(w)
    ELSE
    LET found == get_backup(w.backups, id) IN
    IF ~IsSome(found) THEN Err(w)
    ELSE
    LET backup == Unwrap(found) IN
    IF backup.status # "Created" THEN Err(w)
    ELSE
    LET wp == write_current_pointer(w, backup, now, fault) IN
    IF ~wp.ok THEN Err(wp.w)
    ELSE
    LET w1 == [wp.w EXCEPT !.next_id = @ + 1] IN
    IF fault = "event_insert" THEN Err(w1)
    ELSE [w |-> [w1 EXCEPT !.rollback_events =
                      @ \cup {[id |-> wp.w.next_id, backup_id |-> backup.id,
                               created_at |-> to_rfc3339(now)]},
                  !.backups = {r \in @ : ~TextLess(to_rfc3339(backup.created_at),
                                                   r.created_at)}],
          kind |-> "Ok", entry |-> Some(backup), count |-> 0]

rollback_to(w, now, id, fault) ==
    IF fault = "connect" THEN Err(w)
    ELSE
    LET found == get_backup(w.backups, id) IN
    IF ~IsSome(found) THEN Err(w)
    ELSE
    LET backup == Unwrap(found) IN
    IF backup.status # "Created" THEN Err(w)
    ELSE
    LET wp == write_current_pointer(w, backup, now, fault) IN
    IF ~wp.ok THEN Err(wp.w)
    ELSE
    LET w1 == [wp.w EXCEPT !.next_id = @ + 1] IN
    IF fault = "event_insert" THEN Err(w1)
    ELSE [w |-> [w1 EXCEPT !.rollback_events =
                      @ \cup {[id |-> wp.w.next_id, backup_id |-> backup.id,
                               created_at |-> to_rfc3339(now)]}],
          kind |-> "Ok", entry |-> Some(backup), count |-> 0]

\* ---------------------------------------------------------------- pruning
RECURSIVE RemoveDirs(_, _)
RemoveDirs(d, names) ==
    IF names = {} THEN d
    ELSE LET n == CHOOSE x \in names : TRUE
         IN RemoveDirs(IF n \in DOMAIN d THEN remove_dir_all(d, n) ELSE d,
                       names \ {n})

\* Mutant of Doomed: the SELECT has no status condition.
Doomed_any_status(rows, cutoff) ==
    {r \in rows : TextLess(r.created_at, to_rfc3339(cutoff))}

\* The rows the SELECT of prune_created_older_than_days returns.
Doomed(rows, cutoff) ==
    {r \in rows : r.status = "created" /\ TextLess(r.created_at, to_rfc3339(cutoff))}

\* Mutant of prune_created_older_than_days: only a negative retention
\* disables pruning, and a retention of zero days prunes up to now.
prune_created_older_than_days_zero_prunes(w, now, retention_days, fault, done) ==
    IF retention_days < 0 THEN [w |-> w, kind |-> "Ok", entry |-> None, count |-> 0]
    ELSE
    LET cutoff == now - retention_days * DayTicks
        doomed == Doomed(w.backups, cutoff)
    IN
    IF fault = "connect" THEN Err(w)
    ELSE [w |-> [w EXCEPT !.dirs = RemoveDirs(@, {r.timestamp_dir : r \in doomed}),
                          !.backups = @ \ doomed],
          kind |-> "Ok", entry |-> None, count |-> Cardinality(doomed)]

\* Mutant of prune_created_older_than_days: the rollback events of a pruned
\* entry are deleted with it.
prune_created_older_than_days_cascading(w, now, retention_days, fault, done) ==
    IF retention_days <= 0 THEN [w |-> w, kind |-> "Ok", entry |-> None, count |-> 0]
    ELSE
    LET cutoff == now - retention_days * DayTicks
        doomed == Doomed(w.backups, cutoff)
    IN
    IF fault = "connect" THEN Err(w)
    ELSE [w |-> [w EXCEPT !.dirs = RemoveDirs(@, {r.timestamp_dir : r \in doomed}),
                          !.backups = @ \ doomed,
                          !.rollback_events =
                              {ev \in @ : \A r \in doomed : r.id # ev.backup_id}],
          kind |-> "Ok", entry |-> None, count |-> Cardinality(doomed)]

\* Mutant of prune_created_older_than_days: the rows are deleted first and
\* the directories removed afterwards.
prune_created_older_than_days_rows_first(w, now, retention_days, fault, done) ==
    IF retention_days <= 0 THEN [w |-> w, kind |-> "Ok", entry |-> None, count |-> 0]
    ELSE
    LET cutoff == now - retention_days * DayTicks
        doomed == Doomed(w.backups, cutoff)
    IN
    IF fault = "connect" THEN Err(w)
    ELSE IF fault = "delete" /\ done # doomed
    THEN Err([w EXCEPT !.backups = @ \ done])
    ELSE
    LET w1 == [w EXCEPT !.backups = @ \ doomed] IN
    IF fault = "rmdir" /\ done # doomed
    THEN Err([w1 EXCEPT !.dirs = RemoveDirs(@, {r.timestamp_dir : r \in done})])
    ELSE [w |-> [w1 EXCEPT !.dirs = RemoveDirs(@, {r.timestamp_dir : r \in doomed})],
          kind |-> "Ok", entry |-> None, count |-> Cardinality(doomed)]

\* prune_created_older_than_days(retention_days) at instant now.  The SELECT
\* returns the doomed rows in no stated order: when a step of one of the two
\* loops fails (fault "rmdir" or "delete"), done is the set of rows the loop
\* had handled before it; a directory that no longer exists is skipped, so a
\* removal can only fail on one that is still there.
prune_created_older_than_days(w, now, retention_days, fault, done) ==
    IF retention_days <= 0 THEN [w |-> w, kind |-> "Ok", entry |-> None, count |-> 0]
    ELSE
    LET cutoff == now - retention_days * DayTicks
        doomed == Doomed(w.backups, cutoff)
    IN
    IF fault = "connect" THEN Err(w)
    ELSE
    LET partly == RemoveDirs(w.dirs, {r.timestamp_dir : r \in done}) IN
    IF fault = "rmdir" /\ \E r \in doomed \ done : r.timestamp_dir \in DOMAIN partly
    THEN Err([w EXCEPT !.dirs = partly])
    ELSE
    LET w1 == [w EXCEPT !.dirs = RemoveDirs(@, {r.timestamp_dir : r \in doomed})] IN
    IF fault = "delete" /\ done # doomed
    THEN Err([w1 EXCEPT !.backups = @ \ done])
    ELSE [w |-> [w1 EXCEPT !.backups = @ \ doomed], kind |-> "Ok", entry |-> None,
          count |-> Cardinality(doomed)]

\* ---------------------------------------------------------------- actions
RunOnceFaults ==
    {"none", "connect", "insert", "mkdir", "write_open", "write_io", "stat",
     "metadata_json", "ptr_tmp", "ptr_rename"}

RollbackFaults == {"none", "connect", "ptr_tmp", "ptr_rename", "event_insert"}

PruneFaults == {"none", "connect", "rmdir", "delete"}

RetentionDays == {-1, 0, 1}

\* The callers of the concurrent specifications, and what a caller holds in
\* its local variables between two steps of a call: the step it is at, the
\* call and its arguments, what it has read so far, where the file it holds
\* open now lives, and what the call returned.
Threads == {"a", "b"}

IdleThread ==
    [pc |-> "idle", op |-> "none", now |-> 0, hash |-> "", payload |-> None,
     id |-> 0, stats |-> None, size_bytes |-> 0, backup |-> None,
     fd |-> "closed", in_pointer |-> FALSE, kind |-> "none",
     cutoff |-> 0, doomed |-> {}, pending |-> {}, deleted |-> {}, returned |-> {}]

NoCall ==
    [op |-> "init", now |-> -1, payload |-> None, hash |-> "", id |-> 0, days |-> 0,
     fault |-> "none", last |-> None, kind |-> "Ok", entry |-> None, count |-> 0]

\* sync_collection before it is called, and the scheduler task at the top of
\* its loop.
IdleSync ==
    [pc |-> "idle", config |-> None, endpoint |-> None, hkey |-> "",
     session_key |-> "", exchanges |-> <<>>, result |-> None]

IdleSched ==
    [pc |-> "sleeping", retention_days |-> 0, sync |-> None, run_once |-> "none",
     prune |-> "none"]

\* A connection of the server with no request on it, and no response sent.
NoRequest == [authorization |-> None, csrf |-> None, path |-> ""]

IdleConn == [pc |-> "idle", path |-> "", arrived |-> 0]

NoResponse == [handler |-> "none", req |-> NoRequest, status |-> 0, calls |-> <<>>]

\* AppState of a server without tokens, an open rollback gate, and no request.
IdleHttp ==
    [api_token |-> None, csrf_token |-> None, rollback_gate |-> None,
     holder |-> None, conn |-> [c \in Threads |-> IdleConn], last |-> NoResponse,
     performed |-> None, arrived |-> None]

Init ==
    /\ backups = {}
    /\ rollback_events = {}
    /\ dirs = <<>>
    /\ pointer = None
    /\ pointer_tmp = None
    /\ next_id = 1
    /\ clock = 0
    /\ faulted = FALSE
    /\ ret = NoCall
    /\ threads = [t \in Threads |-> IdleThread]
    /\ backend = "sqlite"
    /\ sync = IdleSync
    /\ sched = IdleSched
    /\ http = IdleHttp

\* The effect of a completed call: res is what it returned, fault the failure
\* injected into it and hit (res differs from the result without it).
Complete(res, clean, fault, call) ==
    /\ clock < MaxClock
    /\ fault # "none" => (~faulted /\ res # clean)
    /\ backups' = res.w.backups
    /\ rollback_events' = res.w.rollback_events
    /\ dirs' = res.w.dirs
    /\ pointer' = res.w.pointer
    /\ pointer_tmp' = res.w.pointer_tmp
    /\ next_id' = res.w.next_id
    /\ clock' = clock + 1
    /\ faulted' = (faulted \/ fault # "none")
    /\ ret' = [call EXCEPT !.now = clock, !.fault = fault, !.kind = res.kind,
                           !.entry = res.entry, !.count = res.count]
    /\ UNCHANGED <<threads, backend, sync, sched, http>>

RunOnce ==
    \E payload \in BackupPayload, content_hash \in Hashes, fault \in RunOnceFaults,
       last_hash \in last_created_hash(backups) :
        Complete(run_once(World, clock, payload, content_hash, last_hash, fault),
                 run_once(World, clock, payload, content_hash, last_hash, "none"),
                 fault,
                 [NoCall EXCEPT !.op = "run_once", !.payload = Some(payload),
                                !.hash = content_hash, !.last = last_hash])

RollbackTo ==
    \E id \in Uuids, fault \in RollbackFaults :
        Complete(rollback_to(World, clock, id, fault),
                 rollback_to(World, clock, id, "none"),
                 fault,
                 [NoCall EXCEPT !.op = "rollback_to", !.id = id])

Prune ==
    \E retention_days \in RetentionDays, fault \in PruneFaults :
        LET doomed == Doomed(backups, clock - retention_days * DayTicks) IN
        \E done \in IF fault \in {"rmdir", "delete"} THEN SUBSET doomed ELSE {{}} :
            Complete(prune_created_older_than_days(World, clock, retention_days,
                                                   fault, done),
                     prune_created_older_than_days(World, clock, retention_days,
                                                   "none", {}),
                     fault,
                     [NoCall EXCEPT !.op = "prune", !.days = retention_days])

\* Time passes between calls.
Tick ==
    /\ clock < MaxClock
    /\ clock' = clock + 1
    /\ UNCHANGED <<backups, rollback_events, dirs, pointer, pointer_tmp, next_id,
                   faulted, ret, threads, backend, sync, sched, http>>

Next == RunOnce \/ RollbackTo \/ Prune \/ Tick

Spec == Init /\ [][Next]_vars

\* ================================================================ concurrent callers
\* Two callers share one repository and each makes one call, step by step:
\* a step is one database statement or one file-system call of the code, and
\* the steps of the two callers interleave freely.  The repository starts
\* as run_once left it after one or two snapshots, the callers arriving
\* within one second of each other.
SeedPayload ==
    [bytes |-> sample_collection, source_revision |-> None, sync_duration_ms |-> Some(1)]

EmptyWorld ==
    [backups |-> {}, rollback_events |-> {}, dirs |-> <<>>, pointer |-> None,
     pointer_tmp |-> None, next_id |-> 1]

SeedOne == run_once(EmptyWorld, 0, SeedPayload, "h1", None, "none").w

SeedTwo == run_once(SeedOne, TicksPerSec, SeedPayload, "h2", Some("h1"), "none").w

SetWorld(w) ==
    /\ backups' = w.backups
    /\ rollback_events' = w.rollback_events
    /\ dirs' = w.dirs
    /\ pointer' = w.pointer
    /\ pointer_tmp' = w.pointer_tmp
    /\ next_id' = w.next_id

InitConc ==
    /\ \E w \in {SeedOne, SeedTwo} :
          /\ backups = w.backups
          /\ rollback_events = w.rollback_events
          /\ dirs = w.dirs
          /\ pointer = w.pointer
          /\ pointer_tmp = w.pointer_tmp
          /\ next_id = w.next_id
    /\ clock = 2 * TicksPerSec
    /\ faulted = FALSE
    /\ ret = NoCall
    /\ threads = [t \in Threads |-> IdleThread]
    /\ backend = "sqlite"
    /\ sync = IdleSync
    /\ sched = IdleSched
    /\ http = IdleHttp

ConcPayloads == {p \in BackupPayload : p.bytes \in {sample_collection, garbage_bytes}}

\* The caller's locals after a step: its record with pc and the fields given.
Returned(t, kind) == [threads[t] EXCEPT !.pc = "done", !.kind = kind]

\* run_once: Utc::now() and Connection::open
StartRunOnce(t) ==
    /\ threads[t].pc = "idle"
    /\ \E payload \in ConcPayloads, content_hash \in Hashes :
          threads' = [threads EXCEPT ![t] =
                         [IdleThread EXCEPT !.pc = "last_created_hash",
                                            !.op = "run_once", !.now = clock,
                                            !.hash = content_hash,
                                            !.payload = Some(payload)]]
    /\ clock' = clock + 1
    /\ UNCHANGED <<backups, rollback_events, dirs, pointer, pointer_tmp, next_id,
                   faulted, ret, backend, sync, sched, http>>

\* run_once: the last_created_hash query and the comparison with content_hash
QueryLastHash(t) ==
    /\ threads[t].pc = "last_created_hash"
    /\ \E last_hash \in last_created_hash(backups) :
          threads' = [threads EXCEPT ![t].pc =
                         IF last_hash = Some(threads[t].hash)
                         THEN "insert_skipped" ELSE "create_dir"]
    /\ UNCHANGED <<backups, rollback_events, dirs, pointer, pointer_tmp, next_id,
                   clock, faulted, ret, backend, sync, sched, http>>

\* run_once: insert_entry of the Skipped entry, and return
InsertSkipped(t) ==
    /\ threads[t].pc = "insert_skipped"
    /\ LET ins == insert_entry(World,
                      NewBackupEntry_skipped_unchanged(threads[t].now, threads[t].hash),
                      "none")
       IN /\ SetWorld(ins.w)
          /\ threads' = [threads EXCEPT ![t] =
                            [Returned(t, "Skipped") EXCEPT !.backup = Some(ins.entry)]]
    /\ UNCHANGED <<clock, faulted, ret, backend, sync, sched, http>>

\* run_once: fs::create_dir_all of backups/<timestamp_dir>
CreateDir(t) ==
    /\ threads[t].pc = "create_dir"
    /\ dirs' = create_dir_all(dirs, format_timestamp_dir(threads[t].now))
    /\ threads' = [threads EXCEPT ![t].pc = "write_payload"]
    /\ UNCHANGED <<backups, rollback_events, pointer, pointer_tmp, next_id, clock,
                   faulted, ret, backend, sync, sched, http>>

\* run_once: fs::write of collection.anki2
WritePayload(t) ==
    /\ threads[t].pc = "write_payload"
    /\ dirs' = [dirs EXCEPT ![format_timestamp_dir(threads[t].now)].collection =
                   Some(Unwrap(threads[t].payload).bytes)]
    /\ threads' = [threads EXCEPT ![t].pc = "extract_stats"]
    /\ UNCHANGED <<backups, rollback_events, pointer, pointer_tmp, next_id, clock,
                   faulted, ret, backend, sync, sched, http>>

\* run_once: extract_stats and fs::metadata read the file that is now at
\* the payload path
ExtractStats(t) ==
    /\ threads[t].pc = "extract_stats"
    /\ LET file == Unwrap(dirs[format_timestamp_dir(threads[t].now)].collection)
           stats == extract_stats(file)
       IN threads' = [threads EXCEPT ![t] =
                         IF IsSome(stats)
                         THEN [threads[t] EXCEPT !.pc = "insert_created",
                                                 !.stats = stats,
                                                 !.size_bytes = file.len]
                         ELSE Returned(t, "Err")]
    /\ UNCHANGED <<backups, rollback_events, dirs, pointer, pointer_tmp, next_id,
                   clock, faulted, ret, backend, sync, sched, http>>

\* run_once: insert_entry of the Created entry (the INSERT and the
\* metadata.json copy)
InsertCreated(t) ==
    /\ threads[t].pc = "insert_created"
    /\ LET payload == Unwrap(threads[t].payload)
           ins == insert_entry(World,
                      NewBackupEntry_created(threads[t].now,
                          format_timestamp_dir(threads[t].now), threads[t].hash,
                          payload.source_revision, payload.sync_duration_ms,
                          threads[t].size_bytes, Unwrap(threads[t].stats)),
                      "none")
       IN /\ SetWorld(ins.w)
          /\ threads' = [threads EXCEPT ![t] =
                            IF ins.ok
                            THEN [threads[t] EXCEPT !.pc = "pointer_open",
                                                    !.backup = Some(ins.entry)]
                            ELSE Returned(t, "Err")]
    /\ UNCHANGED <<clock, faulted, ret, backend, sync, sched, http>>

\* rollback_to(id)
StartRollback(t) ==
    /\ threads[t].pc = "idle"
    /\ \E id \in Uuids :
          threads' = [threads EXCEPT ![t] =
                         [IdleThread EXCEPT !.pc = "get_backup", !.op = "rollback_to",
                                            !.now = clock, !.id = id]]
    /\ clock' = clock + 1
    /\ UNCHANGED <<backups, rollback_events, dirs, pointer, pointer_tmp, next_id,
                   faulted, ret, backend, sync, sched, http>>

\* rollback_to: get_backup and the status check
GetBackup(t) ==
    /\ threads[t].pc = "get_backup"
    /\ LET found == get_backup(backups, threads[t].id) IN
       threads' = [threads EXCEPT ![t] =
                      IF IsSome(found) /\ Unwrap(found).status = "Created"
                      THEN [threads[t] EXCEPT !.pc = "pointer_open", !.backup = found]
                      ELSE Returned(t, "Err")]
    /\ UNCHANGED <<backups, rollback_events, dirs, pointer, pointer_tmp, next_id,
                   clock, faulted, ret, backend, sync, sched, http>>

\* write_current_pointer: fs::write opens state/current-pointer.json.tmp,
\* the one path every caller uses, creating it or truncating the file that
\* is there
PointerOpen(t) ==
    /\ threads[t].pc = "pointer_open"
    /\ pointer_tmp' = Some(PartialPointer)
    /\ threads' = [threads EXCEPT ![t].pc = "pointer_write", ![t].fd = "tmp",
                                  ![t].in_pointer = TRUE]
    /\ UNCHANGED <<backups, rollback_events, dirs, pointer, next_id, clock,
                   faulted, ret, backend, sync, sched, http>>

\* write_current_pointer: fs::write writes the record into the file it
\* opened, wherever a rename has moved that file since, and closes it.  On
\* top of a record another caller wrote into the same file since the
\* truncation, the bytes of the longer record may stay behind the shorter.
PointerWrite(t) ==
    /\ threads[t].pc = "pointer_write"
    /\ LET backup == Unwrap(threads[t].backup)
           ptr == [backup_id |-> backup.id, timestamp_dir |-> backup.timestamp_dir,
                   updated_at |-> threads[t].now, complete |-> TRUE]
           file == IF threads[t].fd = "tmp" THEN pointer_tmp
                   ELSE IF threads[t].fd = "dst" THEN pointer ELSE None
       IN \E written \in IF IsSome(file) /\ Unwrap(file).complete
                         THEN {Some(ptr), Some(PartialPointer)} ELSE {Some(ptr)} :
             /\ pointer_tmp' = IF threads[t].fd = "tmp" THEN written ELSE pointer_tmp
             /\ pointer' = IF threads[t].fd = "dst" THEN written ELSE pointer
    /\ threads' = [threads EXCEPT ![t].pc = "pointer_rename", ![t].fd = "closed"]
    /\ UNCHANGED <<backups, rollback_events, dirs, next_id, clock, faulted, ret,
                   backend, sync, sched, http>>

\* write_current_pointer: fs::rename of the temporary file over
\* current-pointer.json, which fails when no file is at the temporary path;
\* a file another caller holds open moves with the rename.  run_once then
\* returns Created.
PointerRename(t) ==
    /\ threads[t].pc = "pointer_rename"
    /\ IF pointer_tmp = None
       THEN /\ threads' = [threads EXCEPT ![t] = Returned(t, "Err")]
            /\ UNCHANGED <<pointer, pointer_tmp>>
       ELSE /\ pointer' = pointer_tmp
            /\ pointer_tmp' = None
            /\ threads' =
                 [u \in Threads |->
                    IF u = t
                    THEN IF threads[t].op = "run_once" THEN Returned(t, "Created")
                         ELSE [threads[t] EXCEPT !.pc = "insert_event"]
                    ELSE [threads[u] EXCEPT !.fd =
                             IF @ = "tmp" THEN "dst"
                             ELSE IF @ = "dst" THEN "unlinked" ELSE @]]
    /\ UNCHANGED <<backups, rollback_events, dirs, next_id, clock, faulted, ret,
                   backend, sync, sched, http>>

\* rollback_to: INSERT INTO rollback_events, and return
InsertEvent(t) ==
    /\ threads[t].pc = "insert_event"
    /\ rollback_events' = rollback_events
           \cup {[id |-> next_id, backup_id |-> Unwrap(threads[t].backup).id,
                  created_at |-> to_rfc3339(threads[t].now)]}
    /\ next_id' = next_id + 1
    /\ threads' = [threads EXCEPT ![t] = Returned(t, "Ok")]
    /\ UNCHANGED <<backups, dirs, pointer, pointer_tmp, clock, faulted, ret, backend, sync, sched, http>>

NextConc ==
    \E t \in Threads :
        \/ StartRunOnce(t)
        \/ QueryLastHash(t)
        \/ InsertSkipped(t)
        \/ CreateDir(t)
        \/ WritePayload(t)
        \/ ExtractStats(t)
        \/ InsertCreated(t)
        \/ StartRollback(t)
        \/ GetBackup(t)
        \/ PointerOpen(t)
        \/ PointerWrite(t)
        \/ PointerRename(t)
        \/ InsertEvent(t)

SpecConc == InitConc /\ [][NextConc]_vars

\* ================================================================ metadata stores
\* The MetadataStore implementations, on the rows of the backups table: two
\* callers share one store, SQLite or Postgres, and each makes one call,
\* prune_created_before(cutoff) or insert_entry(entry).  A step is one SQL
\* statement.
Pair(r) == <<r.id, r.timestamp_dir>>

\* SqliteStore::prune_created_before: the rows its SELECT returns (created_at
\* is TEXT and compared as text).
sqlite_prune_select(rows, cutoff) ==
    {r \in rows : r.status = "created" /\ TextLess(r.created_at, to_rfc3339(cutoff))}

\* PostgresStore::prune_created_before: the rows its DELETE ... RETURNING
\* deletes (created_at is TIMESTAMPTZ and compared as an instant).
postgres_prune_delete(rows, cutoff) ==
    {r \in rows : r.status = "created" /\ parse_ts(r.created_at) < cutoff}

\* The cutoffs a caller may pass: after the first seeded entry, and after both.
Cutoffs == {TicksPerSec, 2 * TicksPerSec}

\* A fully formed entry handed to insert_entry, made at instant created_at.
StoreEntry(id, created_at) ==
    BackupEntry(id,
        NewBackupEntry_created(created_at, format_timestamp_dir(created_at), "h1",
            None, Some(1), sample_collection.len,
            Unwrap(extract_stats(sample_collection))))

InitStore ==
    /\ backups = SeedTwo.backups
    /\ rollback_events = SeedTwo.rollback_events
    /\ dirs = SeedTwo.dirs
    /\ pointer = SeedTwo.pointer
    /\ pointer_tmp = SeedTwo.pointer_tmp
    /\ next_id = SeedTwo.next_id
    /\ clock = 2 * TicksPerSec
    /\ faulted = FALSE
    /\ ret = NoCall
    /\ threads = [t \in Threads |-> IdleThread]
    /\ backend \in {"sqlite", "postgres"}
    /\ sync = IdleSync
    /\ sched = IdleSched
    /\ http = IdleHttp

\* prune_created_before(cutoff)
StartPruneBefore(t) ==
    /\ threads[t].pc = "idle"
    /\ \E cutoff \in Cutoffs :
          threads' = [threads EXCEPT ![t] =
                         [IdleThread EXCEPT !.pc = IF backend = "sqlite" THEN "select"
                                                   ELSE "delete_returning",
                                            !.op = "prune_created_before",
                                            !.cutoff = cutoff]]
    /\ UNCHANGED <<backups, rollback_events, dirs, pointer, pointer_tmp, next_id,
                   clock, faulted, ret, backend, sync, sched, http>>

\* SqliteStore::prune_created_before: the SELECT fills doomed
SelectDoomed(t) ==
    /\ threads[t].pc = "select"
    /\ LET doomed == sqlite_prune_select(backups, threads[t].cutoff) IN
       threads' = [threads EXCEPT ![t].pc = "delete", ![t].doomed = doomed,
                                  ![t].pending = doomed]
    /\ UNCHANGED <<backups, rollback_events, dirs, pointer, pointer_tmp, next_id,
                   clock, faulted, ret, backend, sync, sched, http>>

\* SqliteStore::prune_created_before: one DELETE of the loop over doomed;
\* a DELETE that matches no row is no error
DeleteDoomedRow(t) ==
    /\ threads[t].pc = "delete"
    /\ \E r \in threads[t].pending :
          /\ backups' = {x \in backups : x.id # r.id}
          /\ threads' = [threads EXCEPT
                            ![t].pending = @ \ {r},
                            ![t].deleted = IF \E x \in backups : x.id = r.id
                                           THEN @ \cup {Pair(r)} ELSE @]
    /\ UNCHANGED <<rollback_events, dirs, pointer, pointer_tmp, next_id, clock,
                   faulted, ret, backend, sync, sched, http>>

\* SqliteStore::prune_created_before: a DELETE of the loop fails and the
\* call returns the error
DeleteDoomedRowFails(t) ==
    /\ threads[t].pc = "delete"
    /\ threads[t].pending # {}
    /\ threads' = [threads EXCEPT ![t] = Returned(t, "Err")]
    /\ UNCHANGED <<backups, rollback_events, dirs, pointer, pointer_tmp, next_id,
                   clock, faulted, ret, backend, sync, sched, http>>

\* SqliteStore::prune_created_before: Ok(doomed)
ReturnDoomed(t) ==
    /\ threads[t].pc = "delete"
    /\ threads[t].pending = {}
    /\ threads' = [threads EXCEPT ![t] =
                      [Returned(t, "Ok") EXCEPT
                          !.returned = {Pair(r) : r \in threads[t].doomed}]]
    /\ UNCHANGED <<backups, rollback_events, dirs, pointer, pointer_tmp, next_id,
                   clock, faulted, ret, backend, sync, sched, http>>

\* PostgresStore::prune_created_before: DELETE ... RETURNING, one statement
DeleteReturning(t) ==
    /\ threads[t].pc = "delete_returning"
    /\ LET gone == postgres_prune_delete(backups, threads[t].cutoff) IN
       /\ backups' = backups \ gone
       /\ threads' = [threads EXCEPT ![t] =
                         [Returned(t, "Ok") EXCEPT
                             !.deleted = {Pair(r) : r \in gone},
                             !.returned = {Pair(r) : r \in gone}]]
    /\ UNCHANGED <<rollback_events, dirs, pointer, pointer_tmp, next_id, clock,
                   faulted, ret, backend, sync, sched, http>>

\* PostgresStore::prune_created_before: the statement fails and deletes nothing
DeleteReturningFails(t) ==
    /\ threads[t].pc = "delete_returning"
    /\ threads' = [threads EXCEPT ![t] = Returned(t, "Err")]
    /\ UNCHANGED <<backups, rollback_events, dirs, pointer, pointer_tmp, next_id,
                   clock, faulted, ret, backend, sync, sched, http>>

\* insert_entry(entry) of either store: one INSERT
StoreInsertEntry(t) ==
    /\ threads[t].pc = "idle"
    /\ \E created_at \in {TicksPerSec - 1, clock} :
          LET entry == StoreEntry(next_id, created_at) IN
          /\ backups' = backups \cup {EntryToRow(entry)}
          /\ threads' = [threads EXCEPT ![t] =
                            [IdleThread EXCEPT !.pc = "done", !.op = "insert_entry",
                                               !.backup = Some(entry), !.kind = "Ok"]]
    /\ next_id' = next_id + 1
    /\ UNCHANGED <<rollback_events, dirs, pointer, pointer_tmp, clock, faulted, ret,
                   backend, sync, sched, http>>

NextStore ==
    \E t \in Threads :
        \/ StartPruneBefore(t)
        \/ SelectDoomed(t)
        \/ DeleteDoomedRow(t)
        \/ DeleteDoomedRowFails(t)
        \/ ReturnDoomed(t)
        \/ DeleteReturning(t)
        \/ DeleteReturningFails(t)
        \/ StoreInsertEntry(t)

SpecStore == InitStore /\ [][NextStore]_vars

\* ================================================================ claims
\* A step that completes a call of op (every call reads a later instant
\* than the one before it, so ret changes exactly at calls).
Called(op) == ret' # ret /\ ret'.op = op

\* The rows stored as created and as skipped.
CreatedRows(rows) == {r \in rows : r.status = "created"}

SkippedRows(rows) == {r \in rows : r.status = "skipped"}

\* h is the content hash of the Created entry with the latest created_at.
LatestCreatedHashIs(rows, h) ==
    \E r \in CreatedRows(rows) :
        /\ r.content_hash = h
        /\ \A y \in CreatedRows(rows) :
               row_to_entry(y).created_at <= row_to_entry(r).created_at

\* Statistics can be extracted from the payload's bytes.
Readable(payload) == IsSome(extract_stats(payload.bytes))

\* C1: when the most recent Created entry has hash h, run_once(payload, h)
\* (not hit by an I/O failure) returns Skipped, adds exactly one row, a
\* Skipped one carrying h, and leaves backups/ and the pointer as they were.
C1_SkipLeavesFilesAndPointer ==
    [][(Called("run_once") /\ ret'.fault = "none"
        /\ LatestCreatedHashIs(backups, ret'.hash))
       => /\ ret'.kind = "Skipped"
          /\ \E e \in backups' \ backups :
                /\ backups' = backups \cup {e}
                /\ e \in SkippedRows(backups')
                /\ e.content_hash = ret'.hash
                /\ ret'.entry = Some(row_to_entry(e))
          /\ dirs' = dirs
          /\ pointer' = pointer]_vars

C1_Witness ==
    /\ ret.op = "run_once" /\ ret.kind = "Skipped" /\ ret.fault = "none"
    /\ DOMAIN dirs # {} /\ IsSome(pointer)
    /\ LatestCreatedHashIs(backups, ret.hash)

\* C2 as stated (on runs without I/O failure): on a repository whose latest Created hash is not h,
\* run_once(p, h) yields Created for every payload p, and a run_once(p', h)
\* that follows a Created run_once(p, h) yields Skipped for every p'.
C2_AnyBytesCreatedThenSkipped ==
    [][(Called("run_once") /\ ~faulted')
       => /\ ~LatestCreatedHashIs(backups, ret'.hash) => ret'.kind = "Created"
          /\ (ret.op = "run_once" /\ ret.kind = "Created" /\ ret.hash = ret'.hash)
                => ret'.kind = "Skipped"]_vars

\* C2 amended: the first call yields Created for every payload p from which
\* statistics can be extracted; the second yields Skipped for every p', and
\* whether a call skips is decided by the digest alone.
C2_ReadableCreatedThenSkipped ==
    [][(Called("run_once") /\ ret'.fault = "none")
       => /\ (~LatestCreatedHashIs(backups, ret'.hash) /\ Readable(Unwrap(ret'.payload)))
                => ret'.kind = "Created"
          /\ (ret.op = "run_once" /\ ret.kind = "Created" /\ ret.hash = ret'.hash)
                => ret'.kind = "Skipped"
          /\ ~LatestCreatedHashIs(backups, ret'.hash) => ret'.kind # "Skipped"]_vars

\* A second call with the same digest and unreadable bytes was skipped right
\* after the call that created the entry.
C2_Witness ==
    /\ ret.op = "run_once" /\ ret.kind = "Skipped" /\ ret.fault = "none"
    /\ Unwrap(ret.payload).bytes = garbage_bytes
    /\ \E r \in CreatedRows(backups) :
          /\ r.content_hash = ret.hash
          /\ row_to_entry(r).created_at = ret.now - 1
          /\ r.stats_json = extract_stats(sample_collection)

\* C3: run_once(h) returns Skipped iff h is the hash of the Created entry
\* with the latest created_at, however many Skipped entries came after it;
\* with no Created entry it never returns Skipped.
C3_SkippedIffLatestCreatedHash ==
    [][(Called("run_once") /\ ret'.fault = "none")
       => (ret'.kind = "Skipped" <=> LatestCreatedHashIs(backups, ret'.hash))]_vars

\* A call was skipped although Skipped entries lie between it and the
\* Created entry it was compared with, and an older Created entry with
\* another hash exists.
C3_Witness ==
    /\ ret.op = "run_once" /\ ret.kind = "Skipped"
    /\ Cardinality(SkippedRows(backups)) >= 2
    /\ \E c, o \in CreatedRows(backups) :
          /\ c.content_hash = ret.hash
          /\ o.content_hash # ret.hash
          /\ row_to_entry(o).created_at < row_to_entry(c).created_at
          /\ \A s \in SkippedRows(backups) :
                row_to_entry(s).created_at > row_to_entry(c).created_at

\* C4 (on runs without I/O failure): Created entries have pairwise distinct
\* timestamp_dir values (and so distinct snapshot files), also when they were
\* created within the same second.
C4_DistinctTimestampDirs ==
    ~faulted =>
        \A a, b \in CreatedRows(backups) :
            a.id # b.id => a.timestamp_dir # b.timestamp_dir

\* C5 (on runs without I/O failure): the snapshot file of a Created entry
\* keeps its bytes until its whole directory is removed, and only pruning
\* removes it.
C5_SnapshotsImmutable ==
    [][~faulted' =>
        \A r \in CreatedRows(backups) :
            SnapshotExists(dirs, r.timestamp_dir)
            => \/ /\ r.timestamp_dir \in DOMAIN dirs'
                  /\ dirs'[r.timestamp_dir].collection
                        = dirs[r.timestamp_dir].collection
               \/ /\ r.timestamp_dir \notin DOMAIN dirs'
                  /\ ret'.op = "prune"]_vars

\* C6: every Skipped entry of the store has an empty timestamp_dir, no
\* stats, size 0 and skip reason Unchanged.
C6_SkippedEntryShape ==
    \A r \in backups :
        LET e == row_to_entry(r) IN
        e.status = "Skipped"
        => /\ e.timestamp_dir = <<>>
           /\ e.stats = None
           /\ e.size_bytes = 0
           /\ e.skip_reason = Some("Unchanged")

C6_Witness ==
    /\ SkippedRows(backups) # {}
    /\ CreatedRows(backups) # {}

\* Two Created entries name the same directory.
SharedDirectory ==
    \E a, b \in CreatedRows(backups) :
        a.id # b.id /\ a.timestamp_dir = b.timestamp_dir

\* Every Created entry of the store has a non-empty timestamp_dir and its
\* snapshot file exists.
CreatedEntriesHaveSnapshots ==
    \A r \in CreatedRows(backups) :
        /\ r.timestamp_dir # <<>>
        /\ SnapshotExists(dirs, r.timestamp_dir)

\* C7, for pruning: every Created entry of the store has a non-empty
\* timestamp_dir and an existing snapshot file also after a prune call,
\* failed ones included (stated for calls that start where this holds and no
\* two entries share a directory, so that a violation is pruning's own).
C7_CreatedEntryHasSnapshot ==
    [][(Called("prune") /\ ~SharedDirectory /\ CreatedEntriesHaveSnapshots)
       => CreatedEntriesHaveSnapshots']_vars

\* C8: rollback_to(id) on an unknown id or on a Skipped entry fails and
\* leaves the pointer, the rollback events and the entries as they were.
C8_RollbackRejectsUnknownAndSkipped ==
    [][(Called("rollback_to")
        /\ \/ ~\E r \in backups : r.id = ret'.id
           \/ \E r \in SkippedRows(backups) : r.id = ret'.id)
       => /\ ret'.kind = "Err"
          /\ pointer' = pointer
          /\ rollback_events' = rollback_events
          /\ backups' = backups]_vars

C8_Witness ==
    /\ ret.op = "rollback_to" /\ ret.kind = "Err" /\ ret.fault = "none"
    /\ \E r \in SkippedRows(backups) : r.id = ret.id
    /\ IsSome(pointer)

\* C9: rollback_to(id) on a Created entry (not hit by an I/O failure)
\* succeeds; a successful rollback_to(id) makes the pointer name that entry's
\* id and timestamp_dir and adds exactly one rollback event, for id.
C9_RollbackMovesPointerAndLogs ==
    [][Called("rollback_to")
       => /\ (ret'.fault = "none" /\ \E r \in CreatedRows(backups) : r.id = ret'.id)
                => ret'.kind = "Ok"
          /\ ret'.kind = "Ok"
                => /\ \E r \in CreatedRows(backups) :
                         /\ r.id = ret'.id
                         /\ ret'.entry = Some(row_to_entry(r))
                         /\ IsSome(pointer')
                         /\ Unwrap(pointer').complete
                         /\ Unwrap(pointer').backup_id = r.id
                         /\ Unwrap(pointer').timestamp_dir = r.timestamp_dir
                   /\ \E ev \in rollback_events' \ rollback_events :
                         /\ rollback_events' = rollback_events \cup {ev}
                         /\ ev.backup_id = ret'.id]_vars

\* A rollback moved the pointer back from a later entry to an earlier one.
C9_Witness ==
    /\ ret.op = "rollback_to" /\ ret.kind = "Ok"
    /\ Unwrap(pointer).backup_id = ret.id
    /\ \E r \in CreatedRows(backups) : r.id > ret.id
    /\ \E ev \in rollback_events : ev.backup_id = ret.id

\* C10: rollback_to, failing or not, changes no row of the backups table
\* and nothing under backups/.
C10_RollbackTouchesNoEntryNoSnapshot ==
    [][Called("rollback_to") => (backups' = backups /\ dirs' = dirs)]_vars

C10_Witness ==
    /\ ret.op = "rollback_to" /\ ret.kind = "Ok"
    /\ Cardinality(backups) >= 2 /\ DOMAIN dirs # {}
    /\ rollback_events # {}

\* The pointer is a complete record naming the entry.
PointerNames(ptr, entry) ==
    /\ IsSome(ptr)
    /\ Unwrap(ptr).complete
    /\ Unwrap(ptr).backup_id = entry.id
    /\ Unwrap(ptr).timestamp_dir = entry.timestamp_dir

C12_PointerFileNeverPartial ==
    [][/\ IsSome(pointer') => Unwrap(pointer').complete
       /\ \/ pointer' = pointer
          \/ /\ ret'.fault \notin {"ptr_tmp", "ptr_rename"}
             /\ pointer_tmp' = None
             /\ \E r \in backups' : r.id = Unwrap(pointer').backup_id
                                    /\ PointerNames(pointer', r)
                                    /\ Unwrap(pointer').updated_at = ret'.now
       /\ (ret' # ret /\ ret'.fault \in {"ptr_tmp", "ptr_rename"})
            => pointer' = pointer /\ IsSome(pointer_tmp')]_vars

\* An update stopped while the temporary file was half written, and the
\* pointer still holds the complete previous record.
C12_Witness ==
    /\ ret.fault = "ptr_tmp"
    /\ pointer_tmp = Some(PartialPointer)
    /\ IsSome(pointer) /\ Unwrap(pointer).complete

\* C13 as stated: when callers update the pointer concurrently, the pointer
\* file never holds a partial or mixed record, every call that reached its
\* pointer update succeeds, and once all have returned the pointer is the
\* record of one of them.
C13_ConcurrentPointerUpdatesAllSucceed ==
    /\ IsSome(pointer) => Unwrap(pointer).complete
    /\ \A t \in Threads :
          (threads[t].pc = "done" /\ threads[t].in_pointer) => threads[t].kind # "Err"
    /\ (/\ \A t \in Threads : threads[t].pc = "done"
        /\ \E t \in Threads : threads[t].in_pointer)
          => \E t \in Threads :
                /\ threads[t].in_pointer
                /\ PointerNames(pointer, Unwrap(threads[t].backup))

\* C14 as stated: two concurrent run_once calls with the same content hash
\* that both return an outcome end both Skipped, or one Created and one
\* Skipped; never both Created.
C14_SameHashNeverBothCreated ==
    \A t, u \in Threads :
        (/\ t # u
         /\ threads[t].op = "run_once" /\ threads[u].op = "run_once"
         /\ threads[t].hash = threads[u].hash
         /\ threads[t].pc = "done" /\ threads[u].pc = "done"
         /\ threads[t].kind # "Err" /\ threads[u].kind # "Err")
        => ~(threads[t].kind = "Created" /\ threads[u].kind = "Created")

\* The Created rows older than the cutoff of a prune call made at instant
\* now with a retention of days.
OlderThanWindow(rows, now, days) ==
    {r \in CreatedRows(rows) : row_to_entry(r).created_at < now - days * DayTicks}

\* C15 as stated: prune_created_older_than_days(n) with n > 0 (not hit by an
\* I/O failure, in a run without one) removes exactly the rows of the Created
\* entries older than now minus n days and their directories, leaves every
\* other row and the directory of every remaining entry as they were,
\* returns the number of rows removed, and list_backups shows none of them.
C15_PruneRemovesExactlyTheOldCreated ==
    [][(Called("prune") /\ ret'.days > 0 /\ ~faulted')
       => LET old == OlderThanWindow(backups, ret'.now, ret'.days) IN
          /\ ret'.kind = "Ok"
          /\ ret'.count = Cardinality(old)
          /\ backups' = backups \ old
          /\ \A r \in old : r.timestamp_dir \notin DOMAIN dirs'
          /\ \A r \in backups' :
                r.timestamp_dir \in DOMAIN dirs
                    => /\ r.timestamp_dir \in DOMAIN dirs'
                       /\ dirs'[r.timestamp_dir] = dirs[r.timestamp_dir]
          /\ \A i \in DOMAIN list_backups(backups') :
                EntryToRow(list_backups(backups')[i]) \notin old]_vars

\* C16: prune_created_older_than_days(n) with n <= 0 returns 0 and changes
\* no row, no directory, no rollback event and neither pointer file.
C16_NonPositiveRetentionIsNoop ==
    [][(Called("prune") /\ ret'.days <= 0)
       => /\ ret'.kind = "Ok" /\ ret'.count = 0
          /\ UNCHANGED <<backups, rollback_events, dirs, pointer, pointer_tmp>>]_vars

\* A prune with a retention of zero days returned on a repository holding a
\* Created entry made before the call.
C16_Witness ==
    /\ ret.op = "prune" /\ ret.days = 0 /\ ret.count = 0
    /\ IsSome(pointer)
    /\ \E r \in CreatedRows(backups) :
          /\ row_to_entry(r).created_at < ret.now
          /\ r.timestamp_dir \in DOMAIN dirs

\* C17: a prune call, failing or not, leaves the Skipped rows as they were.
C17_PruneKeepsSkippedEntries ==
    [][Called("prune") => SkippedRows(backups') = SkippedRows(backups)]_vars

\* A prune removed a row and a Skipped row older than its cutoff is still
\* there.
C17_Witness ==
    /\ ret.op = "prune" /\ ret.count >= 1
    /\ \E r \in SkippedRows(backups) :
          row_to_entry(r).created_at < ret.now - ret.days * DayTicks

\* C18 as stated: a prune_created_before call that returns pairs returns
\* exactly the pairs of the rows its own statements deleted, and no pair is
\* returned by two calls.
C18_PruneReturnsWhatItDeleted ==
    /\ \A t \in Threads :
          (threads[t].op = "prune_created_before" /\ threads[t].pc = "done"
           /\ threads[t].kind = "Ok")
            => threads[t].returned = threads[t].deleted
    /\ \A t, u \in Threads :
          t # u => threads[t].returned \cap threads[u].returned = {}

\* C19: a prune in which a directory removal fails returns an error and has
\* deleted no row; and after any prune call, failed at any step or not, no
\* deleted row's directory is still on disk.
C19_FailedPruneLeavesNoOrphanDirectory ==
    [][Called("prune")
       => /\ ret'.fault = "rmdir" => (ret'.kind = "Err" /\ backups' = backups)
          /\ \A r \in backups \ backups' : r.timestamp_dir \notin DOMAIN dirs']_vars

\* A prune stopped at a directory it could not remove: the doomed row and
\* its directory are both still there.
C19_Witness ==
    /\ ret.op = "prune" /\ ret.fault = "rmdir" /\ ret.kind = "Err"
    /\ \E r \in OlderThanWindow(backups, ret.now, ret.days) :
          r.timestamp_dir \in DOMAIN dirs

\* Every directory under backups/ holds a collection file and a
\* metadata.json copy and is the directory of exactly one Created row, and
\* every Created row has its directory.
DirectoriesMatchCreatedEntries ==
    /\ \A d \in DOMAIN dirs :
          /\ IsSome(dirs[d].collection) /\ IsSome(dirs[d].metadata)
          /\ Cardinality({r \in CreatedRows(backups) : r.timestamp_dir = d}) = 1
    /\ \A r \in CreatedRows(backups) : r.timestamp_dir \in DOMAIN dirs

\* C20 as stated, for a run_once that fails in a run without I/O failure:
\* the directories under backups/ and the Created rows still correspond one
\* to one after it.
C20_DirectoriesMatchCreatedEntries ==
    [][(Called("run_once") /\ ~faulted' /\ ret'.kind = "Err"
        /\ DirectoriesMatchCreatedEntries)
       => DirectoriesMatchCreatedEntries']_vars

\* C21: the rollback events only grow: every step keeps every event as it
\* is, whatever the call and whether it fails, a prune of the entry an event
\* refers to included; and a step that adds events is a rollback_to adding
\* one event, for its target.
C21_RollbackEventsAppendOnly ==
    [][/\ rollback_events \subseteq rollback_events'
       /\ rollback_events' # rollback_events
            => /\ Called("rollback_to")
               /\ \E ev \in rollback_events' \ rollback_events :
                     /\ rollback_events' = rollback_events \cup {ev}
                     /\ ev.backup_id = ret'.id
                     /\ \A old \in rollback_events : old.id # ev.id]_vars

\* A prune removed the entry a rollback event refers to, and the event is
\* still in the log.
C21_Witness ==
    /\ ret.op = "prune" /\ ret.count >= 1
    /\ \E ev \in rollback_events : ~\E r \in backups : r.id = ev.backup_id

\* C22: a row of the backups table keeps its values for as long as it is
\* there: a step adds rows only in run_once, one row with a fresh id; a row
\* leaves the table only in a prune, and only a Created row does.
C22_EntriesImmutableUntilPruned ==
    [][/\ \A r \in backups \ backups' : Called("prune") /\ r \in CreatedRows(backups)
       /\ backups' \ backups # {}
            => /\ Called("run_once")
               /\ \E e \in backups' \ backups :
                     /\ backups' \ backups = {e}
                     /\ \A r \in backups : r.id # e.id]_vars

\* A prune removed a Created row and left a later Created row and the log
\* of an earlier rollback as they were.
C22_Witness ==
    /\ ret.op = "prune" /\ ret.count >= 1
    /\ CreatedRows(backups) # {}
    /\ rollback_events # {}

\* C24 as stated: run_once (not hit by an I/O failure) on a payload whose
\* latest-hash check does not skip it, and whose collection has the counted
\* tables and a dedicated decks table, yields Created, whether or not its
\* col.decks text parses.
C24_DeckTableSufficesForStats ==
    [][(Called("run_once") /\ ~faulted'
        /\ ret'.last # Some(ret'.hash)
        /\ {"cards", "notes", "revlog", "col", "decks"}
               \subseteq Unwrap(ret'.payload).bytes.tables)
       => ret'.kind = "Created"]_vars

\* What a call of a caller does on the Postgres store, where every call is
\* one statement: the rows after it and the pairs it returns.  A call that
\* returned an error has changed nothing.
PostgresEffect(rows, call) ==
    IF call.kind = "Err" THEN [rows |-> rows, returned |-> {}]
    ELSE IF call.op = "insert_entry"
    THEN [rows |-> rows \cup {EntryToRow(Unwrap(call.backup))}, returned |-> {}]
    ELSE LET gone == postgres_prune_delete(rows, call.cutoff)
         IN [rows |-> rows \ gone, returned |-> {Pair(r) : r \in gone}]

\* C23 as stated, for insert_entry and prune_created_before: when the
\* callers of a store have returned, what they returned and the rows left
\* are what the Postgres store gives for the same calls in one of their two
\* orders.
C23_StoreOutcomesArePostgresOutcomes ==
    (\A t \in Threads : threads[t].pc = "done")
    => \E first, second \in Threads :
          /\ first # second
          /\ LET one == PostgresEffect(SeedTwo.backups, threads[first])
                 two == PostgresEffect(one.rows, threads[second])
             IN /\ threads[first].returned = one.returned
                /\ threads[second].returned = two.returned
                /\ backups = two.rows

\* ================================================================ the sync client
\* A base URL is a host and the slashes that end it; a method URL is
\* format!("{}/sync/{}", base, method), which keeps whatever slashes the base
\* still ends with.
Base(host, slashes) == [host |-> host, slashes |-> slashes]

DEFAULT_ENDPOINT == Base("sync.ankiweb.net", 1)

trim_end_matches(base) == [base EXCEPT !.slashes = 0]

MethodUrl(base, method) ==
    [host |-> base.host, slashes |-> base.slashes, method |-> method]

SYNC_VERSION == 11

SyncHeader_without_session(hkey, session_key) ==
    [v |-> SYNC_VERSION, k |-> hkey, c |-> "25.09.2,dev,linux", s |-> ""]

SyncHeader(hkey, session_key) ==
    [v |-> SYNC_VERSION, k |-> hkey, c |-> "25.09.2,dev,linux", s |-> session_key]

\* Bytes on the wire: a zstd frame starts with the magic number and is
\* intact or not; anything else is raw.
zstd_compress(data) == [magic |-> TRUE, intact |-> TRUE, data |-> data]

Raw(data) == [magic |-> FALSE, intact |-> TRUE, data |-> data]

zstd_decompress(bytes) == IF bytes.intact THEN Some(bytes.data) ELSE None

\* Documents: the JSON objects of the protocol, by the fields the client
\* reads, and bytes that are not JSON (the collection file).
HostKeyJson(key) == [json |-> TRUE, key |-> Some(key), empty |-> None]

MetaJson(empty) == [json |-> TRUE, key |-> None, empty |-> Some(empty)]

EmptyObject == [json |-> TRUE, key |-> None, empty |-> None]

CollectionFile == [json |-> FALSE, key |-> None, empty |-> None]

HostKeyRequest(username, password) ==
    [json |-> TRUE, key |-> None, empty |-> None, u |-> username, p |-> password]

MetaRequest ==
    [json |-> TRUE, key |-> None, empty |-> None, v |-> SYNC_VERSION,
     cv |-> "anki,25.09.2 (dev),linux"]

\* serde_json::from_slice::<HostKeyResponse>: an object with a key.
ParseHostKeyResponse(data) ==
    IF data.json /\ IsSome(data.key) THEN Some(Unwrap(data.key)) ELSE None

\* serde_json::from_slice::<MetaResponse>: any object; empty defaults to false.
ParseMetaResponse(data) ==
    IF data.json
    THEN Some([empty |-> IF IsSome(data.empty) THEN Unwrap(data.empty) ELSE FALSE])
    ELSE None

\* What the server side can answer.  Status 0 stands for send() returning an
\* error (no response at all).
Shards == {Base("sync32.ankiweb.net", 1), Base("sync7.ankiweb.net", 0)}

WireBodies ==
    {Raw(HostKeyJson("hk1")), zstd_compress(MetaJson(FALSE)), Raw(MetaJson(TRUE)),
     Raw(CollectionFile),
     [magic |-> TRUE, intact |-> FALSE, data |-> CollectionFile]}

HttpResponses ==
    [status : {200}, location : {None}, body : WireBodies]
    \cup [status : {308}, location : {None} \cup {Some(b) : b \in Shards},
          body : {Raw(CollectionFile)}]
    \cup [status : {0, 403}, location : {None}, body : {Raw(CollectionFile)}]

SendFailed(resp) == resp.status = 0

is_redirection(status) == status \in 300..399

is_success(status) == status \in 200..299

\* An error of the client: which error it is, its message, and the HTTP
\* status and response text that it (or an error it wraps) carries.
SyncErr(kind, msg, status, text) ==
    [kind |-> kind, msg |-> msg, status |-> status, text |-> text, bytes |-> None]

RequestErr(sent, first, final, msg, status, text) ==
    [ok |-> FALSE, sent |-> sent, first |-> first, final |-> final, data |-> None,
     new_endpoint |-> None, error |-> SyncErr("Other", msg, status, text)]

\* sync_request: first is the answer to the POST and second the answer to
\* its reissue, if the POST is reissued.
sync_request(endpoint, method, hkey, session_key, body, first, second) ==
    LET url == MethodUrl(trim_end_matches(endpoint), method)
        header == SyncHeader(hkey, session_key)
        compressed_body == zstd_compress(body)
        post == [url |-> url, header |-> header, body |-> compressed_body]
        redirected == /\ ~SendFailed(first)
                      /\ is_redirection(first.status)
                      /\ IsSome(first.location)
        new_base == trim_end_matches(Unwrap(first.location))
        repost == [url |-> MethodUrl(new_base, method), header |-> header,
                   body |-> compressed_body]
        sent == IF redirected THEN <<post, repost>> ELSE <<post>>
        resp == IF redirected THEN second ELSE first
    IN IF SendFailed(first)
       THEN RequestErr(sent, None, None, "POST", None, None)
       ELSE IF SendFailed(resp)
       THEN RequestErr(sent, Some(first), None, "POST (redirect)", None, None)
       ELSE IF ~is_success(resp.status)
       THEN RequestErr(sent, Some(first), Some(resp), "sync request failed",
                       Some(resp.status), Some(resp.body))
       ELSE IF resp.body.magic /\ zstd_decompress(resp.body) = None
       THEN RequestErr(sent, Some(first), Some(resp), "decompressing response",
                       None, None)
       ELSE [ok |-> TRUE, sent |-> sent, first |-> Some(first), final |-> Some(resp),
             data |-> Some(resp.body.data),
             new_endpoint |-> IF redirected THEN Some(new_base) ELSE None,
             error |-> SyncErr("none", "", None, None)]

\* login: the host key of the answer, or LoginFailed with the text of the
\* request's error; an answer without a key is a plain error.
login(endpoint, username, password, session_key, first, second) ==
    LET result == sync_request(endpoint, "hostKey", "", session_key,
                               HostKeyRequest(username, password), first, second)
        key == ParseHostKeyResponse(Unwrap(result.data))
    IN IF ~result.ok
       THEN [result EXCEPT !.error.kind = "LoginFailed"]
       ELSE IF key = None
       THEN [result EXCEPT !.ok = FALSE,
                           !.error = SyncErr("Other", "parsing hostKey response",
                                             None, None)]
       ELSE [result EXCEPT !.data = key]

\* What sync_collection can be called with, and the session keys
\* simple_session_id can draw.
SyncConfigs ==
    [username : {"", "u"}, password : {"", "p"},
     endpoint : {None, Some(Base("selfhosted", 2))}]

SessionKeys == {"s1", "s2"}

missing_credentials_when_both_empty(config) ==
    config.username = "" /\ config.password = ""

missing_credentials(config) == config.username = "" \/ config.password = ""

\* The endpoint of the requests after meta.
next_endpoint_unchanged(new_endpoint, endpoint) == endpoint

next_endpoint(new_endpoint, endpoint) ==
    IF IsSome(new_endpoint) THEN Unwrap(new_endpoint) ELSE endpoint

meta_empty_ignored(meta) == FALSE

meta_empty(meta) == meta.empty

\* One exchange as the run has seen it: the requests it sent, the answer to
\* the first of them and the answer it ended with.
Exchange(method, result) ==
    [method |-> method, sent |-> result.sent, first |-> result.first,
     final |-> result.final]

SyncFailed(exchanges, error) ==
    [sync EXCEPT !.pc = "done", !.exchanges = exchanges, !.result = Some(error)]

\* sync_collection up to the credentials check.
StartSync ==
    /\ sync.pc = "idle"
    /\ \E config \in SyncConfigs :
          sync' =
              IF missing_credentials(config)
              THEN [sync EXCEPT !.pc = "done", !.config = Some(config),
                                !.result = Some(SyncErr("MissingCredentials",
                                                "ankiweb credentials are missing",
                                                None, None))]
              ELSE [sync EXCEPT !.pc = "login", !.config = Some(config),
                                !.endpoint = Some(IF IsSome(config.endpoint)
                                                  THEN Unwrap(config.endpoint)
                                                  ELSE DEFAULT_ENDPOINT)]
    /\ UNCHANGED <<backups, rollback_events, dirs, pointer, pointer_tmp, next_id,
                   clock, faulted, ret, threads, backend, sched, http>>

\* Step 1: login.
SyncLogin ==
    /\ sync.pc = "login"
    /\ \E session_key \in SessionKeys, first \in HttpResponses, second \in HttpResponses :
          LET config == Unwrap(sync.config)
              r == login(Unwrap(sync.endpoint), config.username, config.password,
                         session_key, first, second)
              log == Append(sync.exchanges, Exchange("hostKey", r))
          IN sync' = IF r.ok
                     THEN [sync EXCEPT !.pc = "meta", !.hkey = Unwrap(r.data),
                                       !.session_key = session_key,
                                       !.exchanges = log]
                     ELSE SyncFailed(log, r.error)
    /\ UNCHANGED <<backups, rollback_events, dirs, pointer, pointer_tmp, next_id,
                   clock, faulted, ret, threads, backend, sched, http>>

\* Step 2: meta, the endpoint for what follows, and the empty check.
SyncMeta ==
    /\ sync.pc = "meta"
    /\ \E first \in HttpResponses, second \in HttpResponses :
          LET r == sync_request(Unwrap(sync.endpoint), "meta", sync.hkey,
                                sync.session_key, MetaRequest, first, second)
              log == Append(sync.exchanges, Exchange("meta", r))
              endpoint == next_endpoint(r.new_endpoint, Unwrap(sync.endpoint))
              meta == ParseMetaResponse(Unwrap(r.data))
          IN sync' =
                 IF ~r.ok
                 THEN SyncFailed(log, [r.error EXCEPT !.msg = "meta request failed"])
                 ELSE IF meta = None
                 THEN SyncFailed(log, SyncErr("Other", "parsing meta response",
                                              None, None))
                 ELSE IF meta_empty(Unwrap(meta))
                 THEN SyncFailed(log, SyncErr("DownloadFailed",
                                              "server collection is empty", None, None))
                 ELSE [sync EXCEPT !.pc = "download", !.endpoint = Some(endpoint),
                                   !.exchanges = log]
    /\ UNCHANGED <<backups, rollback_events, dirs, pointer, pointer_tmp, next_id,
                   clock, faulted, ret, threads, backend, sched, http>>

\* Step 3: download, and the result.
SyncDownload ==
    /\ sync.pc = "download"
    /\ \E first \in HttpResponses, second \in HttpResponses :
          LET r == sync_request(Unwrap(sync.endpoint), "download", sync.hkey,
                                sync.session_key, EmptyObject, first, second)
              log == Append(sync.exchanges, Exchange("download", r))
          IN sync' =
                 IF ~r.ok
                 THEN SyncFailed(log, [r.error EXCEPT !.kind = "DownloadFailed"])
                 ELSE [sync EXCEPT !.pc = "done", !.exchanges = log,
                                   !.result = Some([kind |-> "Ok", msg |-> "",
                                                    status |-> None, text |-> None,
                                                    bytes |-> r.data])]
    /\ UNCHANGED <<backups, rollback_events, dirs, pointer, pointer_tmp, next_id,
                   clock, faulted, ret, threads, backend, sched, http>>

NextSync == StartSync \/ SyncLogin \/ SyncMeta \/ SyncDownload

SpecSync == Init /\ [][NextSync]_vars

\* ---------------------------------------------------------------- claims on the sync client

\* C25: a run of sync_collection whose configuration has an empty username
\* or an empty password is over as soon as it has started, with
\* MissingCredentials and without a single request sent.
C25_MissingCredentialsBeforeAnyRequest ==
    (sync.pc # "idle"
     /\ (Unwrap(sync.config).username = "" \/ Unwrap(sync.config).password = ""))
    => /\ sync.pc = "done"
       /\ Unwrap(sync.result).kind = "MissingCredentials"
       /\ sync.exchanges = <<>>

C25_Witness ==
    /\ sync.pc = "done"
    /\ Unwrap(sync.config).username = "u"
    /\ Unwrap(sync.config).password = ""
    /\ Unwrap(sync.result).kind = "MissingCredentials"

\* What a response holds once decoded, if it can be decoded.
Decoded(resp) ==
    IF resp.body.magic /\ ~resp.body.intact THEN None ELSE Some(resp.body.data)

\* An exchange got a 2xx answer that can be decoded.
Answered(x) ==
    /\ IsSome(x.final)
    /\ Unwrap(x.final).status \in 200..299
    /\ IsSome(Decoded(Unwrap(x.final)))

\* The exchange did what the run needs of it: login returned a host key,
\* meta returned an object that does not report an empty collection,
\* download returned bytes.
Succeeded(x) ==
    /\ Answered(x)
    /\ LET data == Unwrap(Decoded(Unwrap(x.final)))
       IN CASE x.method = "hostKey" -> data.json /\ IsSome(data.key)
            [] x.method = "meta" -> data.json /\ data.empty # Some(TRUE)
            [] OTHER -> TRUE

\* C26: the exchanges of a run are login, meta, download in that order; an
\* exchange is made only if the one before it succeeded; meta and download
\* carry the host key login returned and login's session token; a failed
\* exchange is the last one and the run has failed; a successful run has
\* made all three.
C26_LoginMetaDownloadInOrder ==
    LET X == sync.exchanges IN
    /\ Len(X) <= 3
    /\ \A i \in DOMAIN X :
          /\ X[i].method = <<"hostKey", "meta", "download">>[i]
          /\ i > 1 =>
                /\ Succeeded(X[i - 1])
                /\ \A n \in DOMAIN X[i].sent :
                      /\ X[i].sent[n].header.k
                            = Unwrap(Unwrap(Decoded(Unwrap(X[1].final))).key)
                      /\ X[i].sent[n].header.s = X[1].sent[1].header.s
                      /\ X[i].sent[n].header.s = sync.session_key
          /\ ~Succeeded(X[i]) =>
                /\ i = Len(X)
                /\ sync.pc = "done"
                /\ Unwrap(sync.result).kind # "Ok"
    /\ (sync.pc = "done" /\ Unwrap(sync.result).kind = "Ok")
          => (Len(X) = 3 /\ Succeeded(X[3]))
    /\ sync.pc = "meta" => Len(X) = 1
    /\ sync.pc = "download" => Len(X) = 2

C26_Witness ==
    /\ sync.pc = "done"
    /\ Unwrap(sync.result).kind = "Ok"
    /\ Len(sync.exchanges) = 3
    /\ Len(sync.exchanges[1].sent) = 2
    /\ sync.session_key = "s2"

\* The base a redirect of the exchange names, without the slashes that end it.
RedirectBase(x) ==
    IF /\ IsSome(x.first)
       /\ Unwrap(x.first).status \in 300..399
       /\ IsSome(Unwrap(x.first).location)
    THEN Some([Unwrap(Unwrap(x.first).location) EXCEPT !.slashes = 0])
    ELSE None

\* The endpoint the run was started with, without the slashes that end it.
OriginalBase ==
    LET config == Unwrap(sync.config)
    IN [(IF IsSome(config.endpoint) THEN Unwrap(config.endpoint)
         ELSE DEFAULT_ENDPOINT) EXCEPT !.slashes = 0]

UrlOf(base, method) == [host |-> base.host, slashes |-> base.slashes, method |-> method]

\* A meta exchange answered with a redirect naming a base has sent its POST
\* twice, the second time to {new_base}/sync/meta, header and body the same.
MetaReissued ==
    LET X == sync.exchanges IN
    (Len(X) >= 2 /\ IsSome(RedirectBase(X[2])))
    => /\ Len(X[2].sent) = 2
       /\ X[2].sent[1].url = UrlOf(OriginalBase, "meta")
       /\ X[2].sent[2].url = UrlOf(Unwrap(RedirectBase(X[2])), "meta")
       /\ X[2].sent[2].header = X[2].sent[1].header
       /\ X[2].sent[2].body = X[2].sent[1].body

\* The base the download is due at: the one meta's redirect named, else the
\* original one.
DownloadBase ==
    IF IsSome(RedirectBase(sync.exchanges[2]))
    THEN Unwrap(RedirectBase(sync.exchanges[2]))
    ELSE OriginalBase

\* C27 as stated: after a meta redirect the POST is reissued to the new base
\* and every download request of the run targets the new base; without one
\* every download request targets the original endpoint.
C27_EveryLaterRequestTargetsNewBase ==
    /\ MetaReissued
    /\ Len(sync.exchanges) = 3
          => \A n \in DOMAIN sync.exchanges[3].sent :
                sync.exchanges[3].sent[n].url = UrlOf(DownloadBase, "download")

\* C27, amended: after a meta redirect the POST is reissued to the new base
\* and the download exchange is first sent to the new base; without one it is
\* first sent to the original endpoint.  A download answered with a redirect
\* of its own is reissued to the base that redirect names.
C27_DownloadFirstSentToNewBase ==
    /\ MetaReissued
    /\ Len(sync.exchanges) = 3
          => LET x == sync.exchanges[3] IN
             /\ x.sent[1].url = UrlOf(DownloadBase, "download")
             /\ Len(x.sent) = 2
                   => x.sent[2].url = UrlOf(Unwrap(RedirectBase(x)), "download")

C27_Witness ==
    /\ Len(sync.exchanges) = 3
    /\ Unwrap(sync.config).endpoint # None
    /\ RedirectBase(sync.exchanges[1]) = Some(Base("sync7.ankiweb.net", 0))
    /\ RedirectBase(sync.exchanges[2]) = Some(Base("sync32.ankiweb.net", 0))
    /\ sync.exchanges[3].sent[1].url.host = "sync32.ankiweb.net"
    /\ Unwrap(sync.result).kind = "Ok"

\* C28 as stated: no exchange sends its POST more than twice, and a run whose
\* exchange ended with a response that is not 2xx has failed with
\* LoginFailed or DownloadFailed, the error carrying the status and the text
\* of that response.
C28_Non2xxIsLoginOrDownloadFailed ==
    \A i \in DOMAIN sync.exchanges :
        LET x == sync.exchanges[i] IN
        /\ Len(x.sent) <= 2
        /\ (IsSome(x.final) /\ Unwrap(x.final).status \notin 200..299)
              => /\ sync.pc = "done"
                 /\ Unwrap(sync.result).kind \in {"LoginFailed", "DownloadFailed"}
                 /\ Unwrap(sync.result).status = Some(Unwrap(x.final).status)
                 /\ Unwrap(sync.result).text = Some(Unwrap(x.final).body)

\* C29: a run whose meta exchange was answered with an object that reports
\* the collection as empty has failed with DownloadFailed and has made no
\* download exchange.
C29_EmptyCollectionStopsBeforeDownload ==
    LET X == sync.exchanges IN
    (/\ Len(X) >= 2
     /\ Answered(X[2])
     /\ Unwrap(Decoded(Unwrap(X[2].final))).json
     /\ Unwrap(Decoded(Unwrap(X[2].final))).empty = Some(TRUE))
    => /\ Len(X) = 2
       /\ sync.pc = "done"
       /\ Unwrap(sync.result).kind = "DownloadFailed"

C29_Witness ==
    /\ Len(sync.exchanges) = 2
    /\ sync.pc = "done"
    /\ Answered(sync.exchanges[2])
    /\ Unwrap(Decoded(Unwrap(sync.exchanges[2].final))).empty = Some(TRUE)
    /\ Unwrap(sync.result).msg = "server collection is empty"

\* ================================================================ the scheduler task
\* content_hash: SHA-256 of the bytes, one digest per collection.
content_hash_of(content) ==
    CASE content = sample_collection -> "h1"
      [] content = sample_collection_v2 -> "h2"
      [] content = garbage_bytes -> "h3"
      [] OTHER -> "h4"

\* The earliest instant a DateTime<Utc> can hold, in ticks: subtracting a
\* Duration that leads before it panics.
MIN_UTC == -8

cutoff_overflows(now, retention_days) == now - retention_days * DayTicks < MIN_UTC

\* ANKI_BACKUP_RETENTION_DAYS: any i64; the last one is a window that reaches
\* before the earliest instant.
SchedRetentionDays == {0, 1, MaxClock - MIN_UTC + 1}

InitSched ==
    /\ backups = {}
    /\ rollback_events = {}
    /\ dirs = <<>>
    /\ pointer = None
    /\ pointer_tmp = None
    /\ next_id = 1
    /\ clock = 0
    /\ faulted = FALSE
    /\ ret = NoCall
    /\ threads = [t \in Threads |-> IdleThread]
    /\ backend = "sqlite"
    /\ sync = IdleSync
    /\ \E retention_days \in SchedRetentionDays :
          sched = [IdleSched EXCEPT !.retention_days = retention_days]
    /\ http = IdleHttp

\* A repository call of the task returning.
SchedCall(res, clean, fault, call) ==
    /\ fault # "none" => (~faulted /\ res # clean)
    /\ SetWorld(res.w)
    /\ faulted' = (faulted \/ fault # "none")
    /\ ret' = [call EXCEPT !.now = clock, !.fault = fault, !.kind = res.kind,
                           !.entry = res.entry, !.count = res.count]
    /\ UNCHANGED <<clock, threads, backend, sync, http>>

\* sleep(..max(1)): the task wakes up a second or more later.
SchedWake ==
    /\ sched.pc = "sleeping"
    /\ \E later \in clock + TicksPerSec .. MaxClock : clock' = later
    /\ sched' = [sched EXCEPT !.pc = "fetching", !.sync = None,
                              !.run_once = "none", !.prune = "none"]
    /\ UNCHANGED <<backups, rollback_events, dirs, pointer, pointer_tmp, next_id,
                   faulted, ret, threads, backend, sync, http>>

\* match sync_collection(&config): an error is logged and the pass is over;
\* a result becomes the payload of run_once.
SchedFetch ==
    /\ sched.pc = "fetching"
    /\ \/ sched' = [sched EXCEPT !.pc = "sleeping"]
       \/ \E payload \in BackupPayload :
             sched' = [sched EXCEPT !.pc = "run_once", !.sync = Some(payload)]
    /\ UNCHANGED <<backups, rollback_events, dirs, pointer, pointer_tmp, next_id,
                   clock, faulted, ret, threads, backend, sync, http>>

\* match repo.run_once(payload, hash): every outcome is logged.
SchedRunOnce ==
    /\ sched.pc = "run_once"
    /\ \E fault \in RunOnceFaults, last_hash \in last_created_hash(backups) :
          LET payload == Unwrap(sched.sync)
              hash == content_hash_of(payload.bytes)
          IN \E res \in {run_once(World, clock, payload, hash, last_hash, fault)},
                clean \in {run_once(World, clock, payload, hash, last_hash, "none")} :
                /\ SchedCall(res, clean, fault,
                             [NoCall EXCEPT !.op = "run_once",
                                            !.payload = Some(payload),
                                            !.hash = hash, !.last = last_hash])
                /\ sched' = [sched EXCEPT !.pc = "prune", !.run_once = res.kind]

\* match repo.prune_created_older_than_days(retention_days): every outcome is
\* logged; a panic in the call ends the task.
SchedPrune ==
    /\ sched.pc = "prune"
    /\ IF sched.retention_days > 0 /\ cutoff_overflows(clock, sched.retention_days)
       THEN /\ sched' = [sched EXCEPT !.pc = "panicked", !.prune = "panic"]
            /\ UNCHANGED <<backups, rollback_events, dirs, pointer, pointer_tmp,
                           next_id, clock, faulted, ret, threads, backend, sync, http>>
       ELSE \E fault \in PruneFaults :
              LET doomed == Doomed(backups, clock - sched.retention_days * DayTicks) IN
              \E done \in IF fault \in {"rmdir", "delete"} THEN SUBSET doomed ELSE {{}} :
                 \E res \in {prune_created_older_than_days(World, clock,
                                  sched.retention_days, fault, done)},
                    clean \in {prune_created_older_than_days(World, clock,
                                  sched.retention_days, "none", {})} :
                    /\ SchedCall(res, clean, fault,
                                 [NoCall EXCEPT !.op = "prune",
                                                !.days = sched.retention_days])
                    /\ sched' = [sched EXCEPT !.pc = "sleeping", !.prune = res.kind]

NextSched == SchedWake \/ SchedFetch \/ SchedRunOnce \/ SchedPrune

\* The task can take a step: it is in a phase of a pass, or asleep with time
\* left on the clock of the model.
SchedCanStep ==
    \/ sched.pc \in {"fetching", "run_once", "prune"}
    \/ sched.pc = "sleeping" /\ clock + TicksPerSec <= MaxClock

SchedStates ==
    [pc : {"sleeping", "fetching", "run_once", "prune", "panicked"},
     retention_days : SchedRetentionDays,
     sync : {None} \cup {Some(p) : p \in BackupPayload},
     run_once : {"none", "Created", "Skipped", "Err"},
     prune : {"none", "Ok", "Err", "panic"}]

\* A step of the task as the task's own state shows it: every step of
\* NextSched moves pc, and one is possible exactly when SchedCanStep holds.
TaskSteps == SchedCanStep /\ sched' \in SchedStates /\ sched'.pc # sched.pc

\* The runtime keeps running the task: a sleep ends and a call returns.
SpecSched == InitSched /\ [][NextSched]_vars /\ WF_sched(TaskSteps)

\* C30: the scheduler task never ends, every pass that has started leads
\* back to sleeping whatever the outcome of its phases, a sleeping task wakes
\* up for a next pass (while the clock of the model has room), a failed fetch
\* ends the pass, and run_once is followed by the prune phase whether it
\* failed or not.
C30_SchedulerNeverStops ==
    /\ [][/\ sched'.pc \in {"sleeping", "fetching", "run_once", "prune"}
          /\ sched.pc = "fetching" => sched'.pc \in {"fetching", "sleeping", "run_once"}
          /\ sched.pc = "run_once" => sched'.pc \in {"run_once", "prune"}
          /\ sched.pc = "prune" => sched'.pc \in {"prune", "sleeping"}]_vars
    /\ (sched.pc # "sleeping") ~> (sched.pc = "sleeping")
    /\ (sched.pc = "sleeping" /\ clock + TicksPerSec <= MaxClock)
          ~> (sched.pc = "fetching")

\* ---------------------------------------------------------------- claims on the pointer and on failed calls

\* The pointer file is absent, or it names a Created entry of the store
\* whose snapshot file exists.
PointerTargetStored ==
    \/ pointer = None
    \/ \E r \in CreatedRows(backups) :
          /\ PointerNames(pointer, r)
          /\ SnapshotExists(dirs, r.timestamp_dir)

\* C35 (on runs without I/O failure, from states where no two entries share
\* a directory): whenever the pointer file exists it names a Created entry
\* that is in the store and whose snapshot file exists; no call, pruning
\* included, ends that.
C35_PointerTargetNeverPruned ==
    [][(~faulted' /\ ~SharedDirectory /\ PointerTargetStored)
       => PointerTargetStored']_vars

\* C37: rollback_to changes the pointer if and only if it adds a rollback
\* event, and a rollback_to that returns an error leaves the pointer as it
\* was.
C37_RollbackPointerIffEvent ==
    [][Called("rollback_to")
       => /\ (pointer' # pointer) <=> (rollback_events' # rollback_events)
          /\ ret'.kind = "Err" => pointer' = pointer]_vars

\* C38: a run_once that returns an error adds no row and leaves the pointer
\* as it was; every Created row that run_once adds is the entry the call
\* returned as Created and is what the pointer names after the call.
C38_FailedRunOnceInsertsNothing ==
    [][Called("run_once")
       => /\ ret'.kind = "Err" => (backups' = backups /\ pointer' = pointer)
          /\ \A r \in CreatedRows(backups') \ backups :
                /\ ret'.kind = "Created"
                /\ ret'.entry = Some(row_to_entry(r))
                /\ PointerNames(pointer', r)]_vars

\* ================================================================ a repository with history
\* Three backups of three contents, made a second apart.
SeedThree == run_once(SeedTwo, 2 * TicksPerSec, SeedPayload, "h3", Some("h2"), "none").w

SeededHashes == Hashes \cup {"h3"}

MaxSeededCalls == 2

InitSeeded ==
    /\ backups = SeedThree.backups
    /\ rollback_events = SeedThree.rollback_events
    /\ dirs = SeedThree.dirs
    /\ pointer = SeedThree.pointer
    /\ pointer_tmp = SeedThree.pointer_tmp
    /\ next_id = SeedThree.next_id
    /\ clock = 3 * TicksPerSec
    /\ faulted = FALSE
    /\ ret = NoCall
    /\ threads = [t \in Threads |-> IdleThread]
    /\ backend = "sqlite"
    /\ sync = IdleSync
    /\ sched = IdleSched
    /\ http = IdleHttp

\* A call returning, in a run of at most MaxSeededCalls calls.
SeededCall(res, clean, fault, call) ==
    /\ clock < 3 * TicksPerSec + MaxSeededCalls
    /\ fault # "none" => (~faulted /\ res # clean)
    /\ SetWorld(res.w)
    /\ clock' = clock + 1
    /\ faulted' = (faulted \/ fault # "none")
    /\ ret' = [call EXCEPT !.now = clock, !.fault = fault, !.kind = res.kind,
                           !.entry = res.entry, !.count = res.count]
    /\ UNCHANGED <<threads, backend, sync, sched, http>>

SeededRunOnce ==
    \E payload \in BackupPayload, content_hash \in SeededHashes, fault \in RunOnceFaults,
       last_hash \in last_created_hash(backups) :
        SeededCall(run_once(World, clock, payload, content_hash, last_hash, fault),
                   run_once(World, clock, payload, content_hash, last_hash, "none"),
                   fault,
                   [NoCall EXCEPT !.op = "run_once", !.payload = Some(payload),
                                  !.hash = content_hash, !.last = last_hash])

SeededRollbackTo ==
    \E id \in Uuids, fault \in RollbackFaults :
        SeededCall(rollback_to(World, clock, id, fault),
                   rollback_to(World, clock, id, "none"),
                   fault,
                   [NoCall EXCEPT !.op = "rollback_to", !.id = id])

NextSeeded == SeededRunOnce \/ SeededRollbackTo

SpecSeeded == InitSeeded /\ [][NextSeeded]_vars

\* B is the Created entry made last, after every other one.
MostRecentCreated(rows, b) ==
    /\ b \in CreatedRows(rows)
    /\ \A y \in CreatedRows(rows) \ {b} :
          row_to_entry(y).created_at < row_to_entry(b).created_at

\* A run_once (not hit by an I/O failure) follows a successful rollback_to.
RunOnceAfterRollback == Called("run_once") /\ ret'.fault = "none"
                        /\ ret.op = "rollback_to" /\ ret.kind = "Ok"

\* The call was skipped and the pointer stays on entry a.
SkippedPointerStays(a) ==
    /\ ret'.kind = "Skipped"
    /\ pointer' = pointer
    /\ PointerNames(pointer', a)

\* The call made a new entry and the pointer names it.
CreatedPointerMoves ==
    /\ ret'.kind = "Created"
    /\ \A r \in backups : r.id # Unwrap(ret'.entry).id
    /\ PointerNames(pointer', Unwrap(ret'.entry))

\* C39 as stated: after rollback_to(A), with any Created entry B later than
\* A, run_once (on bytes that can be read) with B's hash is skipped and
\* leaves the pointer on A, and with A's hash makes a new entry the pointer
\* moves to.
C39_AnyLaterEntryIsBaseline ==
    [][(RunOnceAfterRollback /\ Readable(Unwrap(ret'.payload)))
       => \A a, b \in CreatedRows(backups) :
             (a.id = ret.id
              /\ row_to_entry(b).created_at > row_to_entry(a).created_at)
             => /\ ret'.hash = b.content_hash => SkippedPointerStays(a)
                /\ (ret'.hash = a.content_hash /\ Readable(Unwrap(ret'.payload)))
                      => CreatedPointerMoves]_vars

\* C39, amended: after rollback_to(A), with B the most recent Created entry,
\* later than A and of another hash, run_once with B's hash is skipped and
\* leaves the pointer on A, and run_once with A's hash (on bytes that can be
\* read) makes a new entry the pointer moves to.
C39_RollbackKeepsDedupBaseline ==
    [][RunOnceAfterRollback
       => \A a, b \in CreatedRows(backups) :
             (a.id = ret.id
              /\ row_to_entry(b).created_at > row_to_entry(a).created_at
              /\ MostRecentCreated(backups, b)
              /\ a.content_hash # b.content_hash)
             => /\ ret'.hash = b.content_hash => SkippedPointerStays(a)
                /\ (ret'.hash = a.content_hash /\ Readable(Unwrap(ret'.payload)))
                      => CreatedPointerMoves]_vars

\* After a rollback to an entry that is not the last of the three, a run with
\* the hash of that entry made a fourth entry, and the pointer names it.
C39_Witness ==
    /\ ret.op = "run_once" /\ ret.kind = "Created" /\ ret.fault = "none"
    /\ Cardinality(CreatedRows(backups)) = 4
    /\ \E ev \in rollback_events :
          \E a \in CreatedRows(backups) :
             /\ a.id = ev.backup_id
             /\ a.content_hash = ret.hash
             /\ \E b \in CreatedRows(backups) :
                   /\ b.id # Unwrap(ret.entry).id
                   /\ row_to_entry(b).created_at > row_to_entry(a).created_at
    /\ PointerNames(pointer, Unwrap(ret.entry))

\* C36: at the end of every scheduler pass in which the fetch and run_once
\* succeeded and pruning with the configured retention ran (no call of the
\* pass hit by an I/O failure), the store holds a Created entry whose
\* content_hash is the hash of the content just fetched.
C36_FetchedContentKeepsSnapshot ==
    [][(/\ sched.pc = "prune" /\ sched'.pc = "sleeping"
        /\ sched.run_once \in {"Created", "Skipped"}
        /\ sched'.prune = "Ok"
        /\ ~faulted')
       => \E r \in CreatedRows(backups') :
             r.content_hash = content_hash_of(Unwrap(sched.sync).bytes)]_vars

\* ================================================================ the sleep of the scheduler
SecsPerHour == 3600

SecsPerMinute == 60

\* now.minute() and now.second(): the fields of the time of day; the part of
\* now below the second is dropped.
minute(now) == ((now \div TicksPerSec) \div SecsPerMinute) % SecsPerMinute

second(now) == (now \div TicksPerSec) % SecsPerMinute

secs_to_next_hour_minutes_only(now) ==
    SecsPerHour - minute(now) * SecsPerMinute

\* 3600 - (now.minute() * 60 + now.second()) as u64
secs_to_next_hour(now) ==
    SecsPerHour - (minute(now) * SecsPerMinute + second(now))

max(a, b) == IF a >= b THEN a ELSE b

\* The task is started at any moment of an hour.
InitSleep ==
    /\ backups = {}
    /\ rollback_events = {}
    /\ dirs = << >>
    /\ pointer = None
    /\ pointer_tmp = None
    /\ next_id = 1
    /\ clock \in 0 .. SecsPerHour * TicksPerSec - 1
    /\ faulted = FALSE
    /\ ret = NoCall
    /\ threads = [t \in Threads |-> IdleThread]
    /\ backend = "sqlite"
    /\ sync = IdleSync
    /\ sched = IdleSched
    /\ http = IdleHttp

\* let now = Utc::now(); sleep(Duration::from_secs(secs_to_next_hour.max(1))).await
SchedSleep ==
    /\ sched.pc = "sleeping"
    /\ LET secs == max(secs_to_next_hour(clock), 1) IN
          /\ clock' = clock + secs * TicksPerSec
          /\ ret' = [NoCall EXCEPT !.op = "sleep", !.now = clock, !.count = secs]
    /\ sched' = [sched EXCEPT !.pc = "fetching"]
    /\ UNCHANGED <<backups, rollback_events, dirs, pointer, pointer_tmp, next_id,
                   faulted, threads, backend, sync, http>>

\* The pass after the sleep (fetch, run_once, prune) takes no time or some,
\* and the loop is back at its head.
SchedPass ==
    /\ sched.pc = "fetching"
    /\ clock < 2 * SecsPerHour * TicksPerSec
    /\ \E took \in 0 .. TicksPerSec + 1 : clock' = clock + took
    /\ sched' = [sched EXCEPT !.pc = "sleeping"]
    /\ UNCHANGED <<backups, rollback_events, dirs, pointer, pointer_tmp, next_id,
                   faulted, ret, threads, backend, sync, http>>

NextSleep == SchedSleep \/ SchedPass

SpecSleep == InitSleep /\ [][NextSleep]_vars

\* A sleep of the scheduler starts in this step.
Slept == sched.pc = "sleeping" /\ sched'.pc = "fetching"

\* The sleep is 3600 - (minute * 60 + second) seconds computed without
\* underflow, between 1 and 3600 seconds, never 0.
SleepAsComputed ==
    LET m == minute(clock)
        s == second(clock)
    IN /\ m \in 0 .. 59 /\ s \in 0 .. 59
       /\ m * 60 + s <= 3600
       /\ clock' - clock = (3600 - (m * 60 + s)) * TicksPerSec
       /\ (clock' - clock) \div TicksPerSec \in 1 .. 3600

\* C34 as stated: for every minute and second the sleep is 3600 -
\* (minute * 60 + second) seconds, in 1..3600, never 0, computed without
\* underflow, and it ends exactly at the top of the next hour.
C34_SleepEndsExactlyAtNextHour ==
    [][Slept
       => /\ SleepAsComputed
          /\ clock' % (3600 * TicksPerSec) = 0
          /\ clock' \div (3600 * TicksPerSec) = clock \div (3600 * TicksPerSec) + 1]_vars

\* C34, amended: for every minute and second the sleep is 3600 -
\* (minute * 60 + second) seconds, in 1..3600, never 0, computed without
\* underflow; it ends in the next hour, at the top of it plus the part of
\* the current time below the second, so exactly at the top when the
\* current time is a whole second and less than a second after it otherwise.
C34_SleepEndsWithinFirstSecondOfNextHour ==
    [][Slept
       => /\ SleepAsComputed
          /\ clock' \div (3600 * TicksPerSec) = clock \div (3600 * TicksPerSec) + 1
          /\ (clock' \div TicksPerSec) % 3600 = 0
          /\ clock' % TicksPerSec = clock % TicksPerSec
          /\ clock % TicksPerSec = 0 => clock' % (3600 * TicksPerSec) = 0]_vars

\* A sleep of one second, begun at 59:59 and a part of a second, has ended.
C34_Witness ==
    /\ sched.pc = "fetching"
    /\ ret.op = "sleep" /\ ret.count = 1
    /\ minute(ret.now) = 59 /\ second(ret.now) = 59
    /\ ret.now % TicksPerSec # 0
    /\ clock = ret.now + TicksPerSec

\* ================================================================ the HTTP server
\* Header values, tokens and the Bearer prefix are texts: sequences of
\* pieces.  The piece "0xE9" stands for a byte that is not visible ASCII.
Bearer == <<"Bearer", " ">>

ApiToken == <<"t">>

CsrfToken == <<"c">>

NotVisibleAscii == {"0xE9"}

\* HeaderValue::to_str
to_str(value) ==
    IF \E i \in DOMAIN value : value[i] \in NotVisibleAscii THEN None ELSE Some(value)

\* str::strip_prefix
strip_prefix(text, prefix) ==
    IF Len(text) >= Len(prefix) /\ SubSeq(text, 1, Len(prefix)) = prefix
    THEN Some(SubSeq(text, Len(prefix) + 1, Len(text)))
    ELSE None

\* Uuid::parse_str: the texts that are a UUID (one UUID has several), and
\* the UUID each of them is.
UuidOf == ("1" :> 1) @@ ("{1}" :> 1) @@ ("2" :> 2) @@ ("3" :> 3) @@ ("4" :> 4)

parse_str(path) == IF path \in DOMAIN UuidOf THEN Some(UuidOf[path]) ELSE None

OK == 200
BAD_REQUEST == 400
UNAUTHORIZED == 401
FORBIDDEN == 403
NOT_FOUND == 404
TOO_MANY_REQUESTS == 429
INTERNAL_SERVER_ERROR == 500

require_api_auth_any_bearer(state, headers) ==
    IF state.api_token = None THEN "Ok"
    ELSE LET raw == headers.authorization
             text == IF raw = None THEN None ELSE to_str(Unwrap(raw))
             provided == IF text = None THEN None ELSE strip_prefix(Unwrap(text), Bearer)
         IN IF provided # None THEN "Ok" ELSE "Err"

require_api_auth(state, headers) ==
    IF state.api_token = None THEN "Ok"
    ELSE LET raw == headers.authorization
             text == IF raw = None THEN None ELSE to_str(Unwrap(raw))
             provided == IF text = None THEN None ELSE strip_prefix(Unwrap(text), Bearer)
         IN IF provided # None /\ Unwrap(provided) = Unwrap(state.api_token)
            THEN "Ok" ELSE "Err"

\* rollback_backup: the x-csrf-token check; a header that is absent or is
\* not text counts as the empty text.
csrf_rejected(state, headers) ==
    /\ state.csrf_token # None
    /\ LET raw == headers.csrf
           text == IF raw = None THEN None ELSE to_str(Unwrap(raw))
           provided == IF text = None THEN <<>> ELSE Unwrap(text)
       IN provided # Unwrap(state.csrf_token)

ROLLBACK_INTERVAL_SECS == 10

\* chrono::Duration::num_seconds: whole seconds, rounded towards zero
num_seconds(ticks) ==
    IF ticks >= 0 THEN ticks \div TicksPerSec ELSE -((-ticks) \div TicksPerSec)

gate_closed_never(gate, now) == FALSE

\* rollback_backup: the check of the gate
gate_closed(gate, now) ==
    gate # None /\ num_seconds(now - Unwrap(gate)) < ROLLBACK_INTERVAL_SECS

\* tokio::sync::Mutex::lock resolves when no guard is alive
lock_free(holder) == holder = None

\* What a handler answers without having got to the gate: the status and
\* the calls it made on the repository.
api_list_backups(state, headers, fault) ==
    IF require_api_auth(state, headers) = "Err"
    THEN [status |-> UNAUTHORIZED, calls |-> <<>>]
    ELSE IF fault = "connect"
    THEN [status |-> INTERNAL_SERVER_ERROR, calls |-> <<"list_backups">>]
    ELSE [status |-> OK, calls |-> <<"list_backups">>]

api_backup_detail(state, w, headers, fault) ==
    IF require_api_auth(state, headers) = "Err"
    THEN [status |-> UNAUTHORIZED, calls |-> <<>>]
    ELSE LET id == parse_str(headers.path) IN
    IF id = None THEN [status |-> BAD_REQUEST, calls |-> <<>>]
    ELSE IF fault = "connect"
    THEN [status |-> INTERNAL_SERVER_ERROR, calls |-> <<"get_backup">>]
    ELSE IF get_backup(w.backups, Unwrap(id)) = None
    THEN [status |-> NOT_FOUND, calls |-> <<"get_backup">>]
    ELSE [status |-> OK, calls |-> <<"get_backup">>]

download_backup(state, w, headers, fault) ==
    IF require_api_auth(state, headers) = "Err"
    THEN [status |-> UNAUTHORIZED, calls |-> <<>>]
    ELSE LET id == parse_str(headers.path) IN
    IF id = None THEN [status |-> BAD_REQUEST, calls |-> <<>>]
    ELSE IF fault = "connect"
    THEN [status |-> INTERNAL_SERVER_ERROR, calls |-> <<"get_backup">>]
    ELSE LET found == get_backup(w.backups, Unwrap(id)) IN
    IF found = None THEN [status |-> NOT_FOUND, calls |-> <<"get_backup">>]
    ELSE IF Unwrap(found).status # "Created"
    THEN [status |-> BAD_REQUEST, calls |-> <<"get_backup">>]
    ELSE IF fault = "read" \/ ~SnapshotExists(w.dirs, Unwrap(found).timestamp_dir)
    THEN [status |-> INTERNAL_SERVER_ERROR, calls |-> <<"get_backup", "fs::read">>]
    ELSE [status |-> OK, calls |-> <<"get_backup", "fs::read">>]

\* rollback_backup up to the gate: "lock" when the request goes on to it.
rollback_backup(state, headers) ==
    IF require_api_auth(state, headers) = "Err"
    THEN [status |-> UNAUTHORIZED, calls |-> <<>>]
    ELSE IF csrf_rejected(state, headers)
    THEN [status |-> FORBIDDEN, calls |-> <<>>]
    ELSE [status |-> 0, calls |-> <<"lock">>]

\* ---- requests
GoodAuthorization == Some(Bearer \o ApiToken)

AuthorizationHeaders ==
    {None, GoodAuthorization, Some(Bearer \o <<"x">>), Some(<<"bearer", " ">> \o ApiToken),
     Some(ApiToken), Some(Bearer \o ApiToken \o <<" ">>), Some(Bearer),
     Some(Bearer \o ApiToken \o <<"0xE9">>)}

GoodCsrf == Some(CsrfToken)

CsrfHeaders == {None, GoodCsrf, Some(<<"x">>), Some(<<"0xE9">>)}

RollbackPaths == {"1", "3", "4", "zz"}

ReadPaths == {"1", "{1}", "3", "4", "zz"}

RollbackAuthorizations == {None, GoodAuthorization, Some(Bearer \o <<"x">>)}

RollbackRequests ==
    {[authorization |-> a, csrf |-> GoodCsrf, path |-> "1"] : a \in RollbackAuthorizations}
    \cup {[authorization |-> GoodAuthorization, csrf |-> c, path |-> "1"] : c \in CsrfHeaders}
    \cup {[authorization |-> GoodAuthorization, csrf |-> GoodCsrf, path |-> p] :
            p \in RollbackPaths}

\* The requests sent to a handler that reads: every Authorization header to
\* the list, and a few of them and every path to the two with a path.
ReadRequests(handler) ==
    IF handler = "api_list_backups"
    THEN {[authorization |-> a, csrf |-> None, path |-> ""] : a \in AuthorizationHeaders}
    ELSE {[authorization |-> a, csrf |-> None, path |-> "1"] : a \in RollbackAuthorizations}
         \cup {[authorization |-> GoodAuthorization, csrf |-> None, path |-> p] :
                 p \in ReadPaths}

\* ANKI_BACKUP_API_TOKEN and ANKI_BACKUP_CSRF_TOKEN: unset, set, or set to
\* the empty text.
ServerConfigs ==
    {[api_token |-> Some(ApiToken), csrf_token |-> Some(CsrfToken)],
     [api_token |-> Some(<<>>), csrf_token |-> None],
     [api_token |-> None, csrf_token |-> Some(<<>>)]}

\* The instants at which requests arrive and steps are taken: the start,
\* one tick less than the interval of the gate later, and the interval later.
HttpStart == 3 * TicksPerSec

HttpInstants ==
    {HttpStart,
     HttpStart + ROLLBACK_INTERVAL_SECS * TicksPerSec - 1,
     HttpStart + ROLLBACK_INTERVAL_SECS * TicksPerSec}

\* Two Created backups and a Skipped one, made a second apart.
SeedSkipped == run_once(SeedTwo, 2 * TicksPerSec, SeedPayload, "h2", Some("h2"), "none").w

InitHttp ==
    /\ backups = SeedSkipped.backups
    /\ rollback_events = SeedSkipped.rollback_events
    /\ dirs = SeedSkipped.dirs
    /\ pointer = SeedSkipped.pointer
    /\ pointer_tmp = SeedSkipped.pointer_tmp
    /\ next_id = SeedSkipped.next_id
    /\ clock = HttpStart
    /\ faulted = FALSE
    /\ ret = NoCall
    /\ threads = [t \in Threads |-> IdleThread]
    /\ backend = "sqlite"
    /\ sync = IdleSync
    /\ sched = IdleSched
    /\ \E config \in ServerConfigs :
          http = [IdleHttp EXCEPT !.api_token = config.api_token,
                                  !.csrf_token = config.csrf_token]

\* What the server last did with a request: the request as it arrived (of a
\* request answered after the lock, its path), the status it was answered
\* with (0 while the handler is going on), and the calls the handler made.
Response(handler, req, status, calls) ==
    [handler |-> handler, req |-> req, status |-> status, calls |-> calls]

PathOnly(path) == [NoRequest EXCEPT !.path = path]

\* A request arrives, one at an instant, and the server handles it on the
\* first connection that has none.
FirstIdle(c) ==
    /\ http.arrived # Some(clock)
    /\ http.conn[c].pc = "idle"
    /\ c = "b" => http.conn["a"].pc # "idle"

ReadFaults == {"none", "connect", "read"}

\* A handler that reads: the request is answered in one step.
HttpRead(handler) ==
    \E c \in Threads, req \in ReadRequests(handler), fault \in ReadFaults :
        /\ FirstIdle(c)
        /\ LET res == CASE handler = "api_list_backups" ->
                              api_list_backups(http, req, fault)
                        [] handler = "api_backup_detail" ->
                              api_backup_detail(http, World, req, fault)
                        [] handler = "download_backup" ->
                              download_backup(http, World, req, fault)
           IN http' = [http EXCEPT !.arrived = Some(clock),
                                   !.last = Response(handler, req, res.status, res.calls)]
        /\ UNCHANGED <<backups, rollback_events, dirs, pointer, pointer_tmp, next_id,
                       clock, faulted, ret, threads, backend, sync, sched>>

HttpList == HttpRead("api_list_backups")

HttpDetail == HttpRead("api_backup_detail")

HttpDownload == HttpRead("download_backup")

\* rollback_backup: a request arrives and is answered with 401 or 403, or
\* goes on to rollback_gate.lock().await
HttpRollbackStart(c) ==
    /\ FirstIdle(c)
    /\ \E req \in RollbackRequests :
          LET res == rollback_backup(http, req) IN
          http' = IF res.calls = <<>>
                  THEN [http EXCEPT !.arrived = Some(clock),
                                    !.last = Response("rollback_backup", req,
                                                      res.status, res.calls)]
                  ELSE [http EXCEPT !.arrived = Some(clock),
                                    !.conn[c] = [pc |-> "waiting", path |-> req.path,
                                                 arrived |-> clock],
                                    !.last = Response("rollback_backup", req,
                                                      res.status, res.calls)]
    /\ UNCHANGED <<backups, rollback_events, dirs, pointer, pointer_tmp, next_id,
                   clock, faulted, ret, threads, backend, sync, sched>>

\* rollback_backup: the lock is acquired
HttpLock(c) ==
    /\ http.conn[c].pc = "waiting"
    /\ lock_free(http.holder)
    /\ http' = [http EXCEPT !.holder = Some(c), !.conn[c].pc = "holding"]
    /\ UNCHANGED <<backups, rollback_events, dirs, pointer, pointer_tmp, next_id,
                   clock, faulted, ret, threads, backend, sync, sched>>

\* rollback_backup: the gate is checked and the id parsed; the request is
\* answered with 429 or 400 (the guard is dropped), or rollback_to is called.
HttpGate(c) ==
    /\ http.conn[c].pc = "holding"
    /\ LET req == PathOnly(http.conn[c].path) IN
       http' = IF gate_closed(http.rollback_gate, clock)
               THEN [http EXCEPT !.holder = None, !.conn[c] = IdleConn,
                                 !.last = Response("rollback_backup", req,
                                                   TOO_MANY_REQUESTS, <<"lock">>)]
               ELSE IF parse_str(req.path) = None
               THEN [http EXCEPT !.holder = None, !.conn[c] = IdleConn,
                                 !.last = Response("rollback_backup", req,
                                                   BAD_REQUEST, <<"lock">>)]
               ELSE [http EXCEPT !.conn[c].pc = "calling"]
    /\ UNCHANGED <<backups, rollback_events, dirs, pointer, pointer_tmp, next_id,
                   clock, faulted, ret, threads, backend, sync, sched>>

\* rollback_backup: repo.rollback_to(id) returns; an error is answered with
\* 400, a success arms the gate and is answered with 200; the guard is dropped.
HttpRollbackTo(c) ==
    /\ http.conn[c].pc = "calling"
    /\ \E fault \in RollbackFaults :
          LET req == PathOnly(http.conn[c].path)
              id == Unwrap(parse_str(req.path))
          IN \E res \in {rollback_to(World, clock, id, fault)},
                clean \in {rollback_to(World, clock, id, "none")} :
                /\ fault # "none" => (~faulted /\ res # clean)
                /\ SetWorld(res.w)
                /\ faulted' = (faulted \/ fault # "none")
                /\ ret' = [NoCall EXCEPT !.op = "rollback_to", !.id = id, !.now = clock,
                                         !.fault = fault, !.kind = res.kind,
                                         !.entry = res.entry, !.count = res.count]
                /\ http' = IF res.kind = "Err"
                           THEN [http EXCEPT !.holder = None, !.conn[c] = IdleConn,
                                    !.last = Response("rollback_backup", req,
                                                      BAD_REQUEST, <<"lock", "rollback_to">>)]
                           ELSE [http EXCEPT !.holder = None, !.conn[c] = IdleConn,
                                    !.rollback_gate = Some(clock),
                                    !.performed = Some(clock),
                                    !.last = Response("rollback_backup", req,
                                                      OK, <<"lock", "rollback_to">>)]
    /\ UNCHANGED <<clock, threads, backend, sync, sched>>

\* Time passes.
HttpTick ==
    /\ \E later \in HttpInstants : later > clock /\ clock' = later
    /\ UNCHANGED <<backups, rollback_events, dirs, pointer, pointer_tmp, next_id,
                   faulted, ret, threads, backend, sync, sched, http>>

NextHttp ==
    \/ HttpList
    \/ HttpDetail
    \/ HttpDownload
    \/ \E c \in Threads :
          \/ HttpRollbackStart(c)
          \/ HttpLock(c)
          \/ HttpGate(c)
          \/ HttpRollbackTo(c)
    \/ HttpTick

SpecHttp == InitHttp /\ [][NextHttp]_vars

\* ---------------------------------------------------------------- claims on the HTTP server
\* A request arrives in this step; http'.last tells what the handler did
\* with it on arrival.
Arrived == http'.arrived # http.arrived

\* Nothing of the repository changes in this step, nor does the gate.
RepositoryAndGateUnchanged ==
    /\ UNCHANGED <<backups, rollback_events, dirs, pointer, pointer_tmp, next_id>>
    /\ http'.rollback_gate = http.rollback_gate

\* The Authorization header is exactly "Bearer <token>".
ExactBearer(req, token) == req.authorization = Some(<<"Bearer", " ">> \o token)

ApiHandlers == {"api_list_backups", "api_backup_detail", "download_backup", "rollback_backup"}

\* C31: with an API token configured, each of the four API handlers answers
\* a request whose Authorization header is not exactly "Bearer <token>" with
\* 401, having made no call on the repository and changed nothing; a request
\* with exactly that header, and every request when no token is configured,
\* is not answered with 401: the handler goes on.
C31_ApiAuthBeforeRepository ==
    [][Arrived
       => LET r == http'.last IN
          /\ r.handler \in ApiHandlers
          /\ IF http.api_token # None /\ ~ExactBearer(r.req, Unwrap(http.api_token))
             THEN /\ r.status = 401
                  /\ r.calls = <<>>
                  /\ RepositoryAndGateUnchanged
                  /\ http'.conn = http.conn
             ELSE /\ r.status # 401
                  /\ r.handler = "rollback_backup" => r.status \in {0, 403}
                  /\ (r.handler = "api_list_backups") => r.calls = <<"list_backups">>]_vars

\* The rollback handler answered a request carrying another token with 401.
C31_Witness ==
    /\ http.api_token = Some(<<"t">>)
    /\ http.last.handler = "rollback_backup"
    /\ http.last.req.authorization = Some(<<"Bearer", " ", "x">>)
    /\ http.last.status = 401

\* C32: with a CSRF token configured, a rollback request (that passed the
\* API authentication) without an x-csrf-token header equal to the token is
\* answered with 403, and pointer, event log and gate stay as they were.
C32_CsrfMismatchIsForbidden ==
    [][(/\ Arrived
        /\ http'.last.handler = "rollback_backup"
        /\ http'.last.status # 401
        /\ http.csrf_token # None
        /\ http'.last.req.csrf # http.csrf_token)
       => /\ http'.last.status = 403
          /\ RepositoryAndGateUnchanged
          /\ http'.conn = http.conn]_vars

\* The request on connection c has the lock and checks the gate in this step.
GateChecked(c) == http.conn[c].pc = "holding" /\ http'.conn[c].pc # "holding"

\* rollback_to, called for the request on connection c, returns in this step.
RollbackReturned(c) == http.conn[c].pc = "calling" /\ http'.conn[c].pc = "idle"

\* The connections whose request has the lock.
InGate(state) == {c \in Threads : state.conn[c].pc \in {"holding", "calling"}}

GateTicks == 10 * TicksPerSec

\* No two requests are past the lock, the gate is armed by a rollback_to that
\* returned Ok and by nothing else, and two rollbacks that succeed are 10
\* seconds apart or more.
GateSerialises ==
    /\ Cardinality(InGate(http')) <= 1
    /\ http'.rollback_gate # http.rollback_gate
          => \E c \in Threads :
                /\ RollbackReturned(c)
                /\ ret'.op = "rollback_to" /\ ret'.kind = "Ok" /\ ret'.now = clock
                /\ http'.last.status = 200
                /\ http'.rollback_gate = Some(clock)
    /\ \A c \in Threads :
          RollbackReturned(c)
          => /\ http'.last.handler = "rollback_backup"
             /\ (http'.last.status = 200) <=> (ret'.kind = "Ok")
             /\ http'.last.status # 200
                   => (http'.last.status = 400 /\ http'.rollback_gate = http.rollback_gate)
             /\ (http'.last.status = 200 /\ http.performed # None)
                   => clock - Unwrap(http.performed) >= GateTicks
             /\ http'.last.status = 200 => http'.performed = Some(clock)

\* The request is answered with 429 and the pointer and the events are as
\* they were.
TooManyRequests ==
    /\ http'.last.status = 429
    /\ http'.last.handler = "rollback_backup"
    /\ UNCHANGED <<backups, rollback_events, dirs, pointer, pointer_tmp, next_id>>
    /\ http'.rollback_gate = http.rollback_gate

\* C33 as stated: successful rollbacks are 10 seconds apart or more and
\* never run concurrently, a failed rollback does not arm the gate, and a
\* request that arrived less than 10 seconds after the last successful
\* rollback is answered with 429 without touching the pointer.
C33_ArrivalWithinIntervalIsRefused ==
    [][/\ GateSerialises
       /\ \A c \in Threads :
             (/\ GateChecked(c)
              /\ http.performed # None
              /\ http.conn[c].arrived - Unwrap(http.performed) < GateTicks)
             => TooManyRequests]_vars

\* C33, amended: successful rollbacks are 10 seconds apart or more and never
\* run concurrently, a failed rollback (bad id, unknown or Skipped backup, an
\* I/O failure) does not arm the gate, and a request that checks the gate,
\* having acquired the lock, less than 10 seconds after the last successful
\* rollback is answered with 429 without touching the pointer; one that
\* checks it later goes on to its id.
C33_RollbackGateInterval ==
    [][/\ GateSerialises
       /\ \A c \in Threads :
             GateChecked(c)
             => IF http.performed # None /\ clock - Unwrap(http.performed) < GateTicks
                THEN TooManyRequests
                ELSE http'.last.status # 429]_vars

\* A second rollback succeeded, 10 seconds after the first.
C33_Witness ==
    /\ http.last.handler = "rollback_backup" /\ http.last.status = 200
    /\ http.performed = Some(HttpStart + GateTicks)
    /\ Cardinality(rollback_events) = 2
    /\ \E ev \in rollback_events : parse_ts(ev.created_at) = HttpStart

====
